---- MODULE Spec2Model ----
(***************************************************************************)
(* A model of the mushroom identifier: the service pipeline of             *)
(* src/App.tsx lines 1230-1794 (credential lookup, response decoder,       *)
(* sanitizers, two-tier model fallback, image acquisition) and the         *)
(* App component of src/App.tsx lines 750-1227 (History and Collection     *)
(* stores, field diary, error display).                                    *)
(*                                                                         *)
(* JavaScript values are tagged records.  A string that the code inspects  *)
(* with includes()/toLowerCase() is a sequence of words, so that a         *)
(* case-sensitive and a case-insensitive match differ in the model as      *)
(* they do in the code.                                                    *)
(***************************************************************************)
EXTENDS Integers, Sequences, FiniteSets, TLC

(***************************************************************************)
(* JavaScript values                                                       *)
(***************************************************************************)
Undefined == [t |-> "undefined"]
JNull == [t |-> "null"]
\* a string is the sequence of its words; '' is <<>>
Str(s) == [t |-> "string", v |-> s]
\* a number is the word sequence String(n) prints
Num(s) == [t |-> "number", v |-> s]

Bool(b) == [t |-> "boolean", b |-> b]
\* an array is the sequence of its items
Arr(items) == [t |-> "array", items |-> items]

\* JavaScript truthiness: !x is ~Truthy(x)
Truthy(x) ==
    CASE x.t = "undefined" -> FALSE
      [] x.t = "null" -> FALSE
      [] x.t = "string" -> x.v # <<>>
      [] x.t = "number" -> x.v # <<"0">>
      [] x.t = "boolean" -> x.b
      [] OTHER -> TRUE

\* typeof x === 'object'
TypeofObject(x) == x.t \in {"object", "array", "null"}

\* the array as it came, items that are no strings included
MutStringArrayKeepsAll(x) == IF x.t = "array" THEN x ELSE Arr(<<>>)

\* Array.isArray(x) ? x.filter(item => typeof item === 'string') : []
StringArray(x) ==
    IF x.t = "array" THEN Arr(SelectSeq(x.items, LAMBDA item : item.t = "string"))
    ELSE Arr(<<>>)

\* data.key: a property read; undefined on a non-object and on a missing key
Get(data, key) ==
    IF data.t = "object" /\ key \in DOMAIN data THEN data[key] ELSE Undefined

(***************************************************************************)
(* Thrown values.  isError is `instanceof Error`; message is the word      *)
(* sequence of error.message.                                              *)
(***************************************************************************)
Err(msg) == [isError |-> TRUE, message |-> msg]
NonErr(msg) == [isError |-> FALSE, message |-> msg]
NoError == [isError |-> FALSE, message |-> <<"(none)">>]

\* String.prototype.toLowerCase on the words the provider's messages use
LowerWord(w) ==
    CASE w = "Resource" -> "resource"
      [] w = "Failed" -> "failed"
      [] w = "API" -> "api"
      [] OTHER -> w

ToLowerCase(msg) == [i \in DOMAIN msg |-> LowerWord(msg[i])]

\* String.prototype.includes: pat occurs in msg as a contiguous run of words
Includes(msg, pat) ==
    \E i \in 1..(Len(msg) - Len(pat) + 1) : SubSeq(msg, i, i + Len(pat) - 1) = pat

\* The messages the provider's client raises
Msg429 == <<"429", "Too", "Many", "Requests">>
MsgExhaustedLower == <<"resource", "has", "been", "exhausted">>
MsgExhausted == <<"Resource", "has", "been", "exhausted">>
MsgFetchLower == <<"failed", "to", "fetch">>
MsgFetch == <<"Failed", "to", "fetch">>
MsgKeyInvalid == <<"API", "key", "not", "valid">>
MsgInternal == <<"500", "internal", "error">>
\* text.match on an undefined response text
MsgTypeError == <<"Cannot", "read", "properties", "of", "undefined">>

ProviderErrors ==
    { Err(m) : m \in {Msg429, MsgExhaustedLower, MsgExhausted, MsgFetchLower,
                      MsgFetch, MsgKeyInvalid, MsgInternal} }
    \cup { NonErr(Msg429) }

\* Results of a call that may throw
Return(v) == [ok |-> TRUE, value |-> v, error |-> NoError]
Throw(e) == [ok |-> FALSE, value |-> Undefined, error |-> e]

(***************************************************************************)
(* getAiClient                                                             *)
(***************************************************************************)
\* a client built without looking at the key
MutGetAiClientNoCheck(apiKey) == Return(Str(<<"client">>))

getAiClient(apiKey) ==
    IF ~apiKey THEN Throw(Err(<<"SERVICE_CONFIG_ERROR_API_KEY_MISSING">>))
    ELSE Return(Str(<<"client">>))

(***************************************************************************)
(* Response decoder.  A response text is classified by what JSON.parse     *)
(* and the fence regular expression do with it:                            *)
(*   json        JSON.parse(text) succeeds and yields data                 *)
(*   fenced      JSON.parse(text) fails, the fence matches and its         *)
(*               contents parse to data                                    *)
(*   fencedBad   the fence matches, its contents do not parse              *)
(*   fencedEmpty the fence matches with empty contents (match[1] is '')    *)
(*   prose       neither parses nor holds a fence                          *)
(*   absent      response.text is undefined                                *)
(***************************************************************************)
Text(form, data) == [form |-> form, data |-> data]

getJsonFromResponse(text) ==
    IF text.form = "json" THEN Return(text.data)
    ELSE IF text.form = "absent" THEN Throw(Err(MsgTypeError))
    ELSE IF text.form = "fenced" THEN Return(text.data)
    ELSE Throw(Err(<<"INVALID_RESPONSE">>))

(***************************************************************************)
(* Error classification                                                    *)
(***************************************************************************)
\* the network classification left out
MutHandleApiErrorNoNetwork(error) ==
    IF error.isError
    THEN LET message == error.message IN
         IF Includes(message, <<"SERVICE_CONFIG_ERROR_API_KEY_MISSING">>) THEN error
         ELSE IF Includes(ToLowerCase(message), <<"api", "key", "not", "valid">>)
              THEN Err(<<"SERVICE_CONFIG_ERROR">>)
         ELSE IF Includes(message, <<"429">>)
                 \/ Includes(message, <<"resource", "has", "been", "exhausted">>)
              THEN Err(<<"API_QUOTA">>)
         ELSE error
    ELSE Err(<<"UNEXPECTED_ERROR">>)

\* handleApiError always throws; the operator yields the error it throws
handleApiError(error) ==
    IF error.isError
    THEN LET message == error.message IN
         IF Includes(message, <<"SERVICE_CONFIG_ERROR_API_KEY_MISSING">>) THEN error
         ELSE IF Includes(ToLowerCase(message), <<"api", "key", "not", "valid">>)
              THEN Err(<<"SERVICE_CONFIG_ERROR">>)
         ELSE IF Includes(message, <<"429">>)
                 \/ Includes(message, <<"resource", "has", "been", "exhausted">>)
              THEN Err(<<"API_QUOTA">>)
         ELSE IF Includes(message, <<"failed", "to", "fetch">>)
              THEN Err(<<"NETWORK_ERROR">>)
         ELSE error
    ELSE Err(<<"UNEXPECTED_ERROR">>)

\* a fallback on every failure
MutIsQuotaErrorAlways(error) == TRUE

\* the exhaustion phrase matched case-sensitively, as handleApiError matches it
MutIsQuotaErrorCaseSensitive(error) ==
    IF error.isError
    THEN LET message == error.message IN
         Includes(message, <<"429">>)
         \/ Includes(message, <<"resource", "has", "been", "exhausted">>)
    ELSE FALSE

isQuotaError(error) ==
    IF error.isError
    THEN LET message == error.message IN
         Includes(message, <<"429">>)
         \/ Includes(ToLowerCase(message), <<"resource", "has", "been", "exhausted">>)
    ELSE FALSE

(***************************************************************************)
(* Sanitizers                                                              *)
(***************************************************************************)
\* The result is the string's word sequence; JSON.stringify(data, null, 2)
\* of an object or an array is a text in braces or in brackets
formatTextualData(data, fallback) ==
    IF data.t = "null" \/ data.t = "undefined" \/ (data.t = "string" /\ data.v = <<>>)
    THEN fallback
    ELSE IF data.t = "string" THEN data.v
    ELSE IF data.t = "object" THEN <<"{", "...", "}">>
    ELSE IF data.t = "array" THEN <<"[", "...", "]">>
    ELSE IF data.t = "boolean" THEN (IF data.b THEN <<"true">> ELSE <<"false">>)
    ELSE data.v

NameNotAvailable == <<"Name", "not", "available">>
ScientificNameNotAvailable == <<"Scientific", "name", "not", "available">>
DistributionNotAvailable == <<"Geographic", "distribution", "not", "available", ".">>

MushroomInfo(nombreComun, nombreCientifico, distribucionGeografica) ==
    [t |-> "object",
     nombreComun |-> Str(nombreComun),
     nombreCientifico |-> Str(nombreCientifico),
     distribucionGeografica |-> Str(distribucionGeografica)]

\* ['Edible', 'Inedible', 'Caution', 'Poisonous', 'Lethal']
ToxicityLevels ==
    {Str(<<"Edible">>), Str(<<"Inedible">>), Str(<<"Caution">>), Str(<<"Poisonous">>),
     Str(<<"Lethal">>)}

\* any string the model provides is let through
MutGetToxicityLevelAnyString(val) == IF val.t = "string" THEN val ELSE Str(<<"Caution">>)

\* levels.includes(val) ? val : 'Caution'
getToxicityLevel(val) == IF val \in ToxicityLevels THEN val ELSE Str(<<"Caution">>)

\* sanitizedToxicity
ToxicityInfo(toxicidad) ==
    LET toxData == IF Truthy(toxicidad) /\ TypeofObject(toxicidad)
                   THEN toxicidad ELSE [t |-> "object"]
    IN  [t |-> "object",
         descripcion |-> Str(formatTextualData(Get(toxData, "descripcion"),
                                               <<"No", "information", "available.">>)),
         nivelToxicidad |-> getToxicityLevel(Get(toxData, "nivelToxicidad")),
         compuestosToxicos |-> StringArray(Get(toxData, "compuestosToxicos")),
         sintomas |-> Str(formatTextualData(Get(toxData, "sintomas"),
                                            <<"Symptoms", "not", "specified.">>)),
         primerosAuxilios |-> Str(formatTextualData(Get(toxData, "primerosAuxilios"),
                                                    <<"In", "case", "of", "ingestion,", "seek",
                                                      "immediate", "medical", "attention.">>))]

\* the callback of data.recetas.map; null is JNull
Recipe(r) ==
    IF ~Truthy(r) \/ ~TypeofObject(r) THEN JNull
    ELSE [t |-> "object",
          nombre |-> Str(formatTextualData(Get(r, "nombre"), <<"Unnamed", "Recipe">>)),
          ingredientes |-> StringArray(Get(r, "ingredientes")),
          instrucciones |-> Str(formatTextualData(Get(r, "instrucciones"),
                                                  <<"No", "instructions.">>))]

\* an entry is dropped only when it has neither a name nor a key difference
MutSimilarMushroomKeepsPartial(h) ==
    IF ~Truthy(h) \/ ~TypeofObject(h)
       \/ (~Truthy(Get(h, "nombreComun")) /\ ~Truthy(Get(h, "diferenciaClave")))
    THEN JNull
    ELSE [t |-> "object",
          nombreComun |-> Str(formatTextualData(Get(h, "nombreComun"),
                                                <<"Unknown", "Mushroom">>)),
          nombreCientifico |-> Str(formatTextualData(Get(h, "nombreCientifico"), <<"N/A">>)),
          diferenciaClave |-> Str(formatTextualData(Get(h, "diferenciaClave"),
                                                    <<"No", "key", "difference", "provided.">>)),
          esToxico |-> IF Get(h, "esToxico").t = "boolean" THEN Get(h, "esToxico")
                       ELSE Bool(TRUE)]

\* the callback of data.hongosSimilares.map; null is JNull
SimilarMushroom(h) ==
    IF ~Truthy(h) \/ ~TypeofObject(h) \/ ~Truthy(Get(h, "nombreComun"))
       \/ ~Truthy(Get(h, "diferenciaClave"))
    THEN JNull
    ELSE [t |-> "object",
          nombreComun |-> Str(formatTextualData(Get(h, "nombreComun"),
                                                <<"Unknown", "Mushroom">>)),
          nombreCientifico |-> Str(formatTextualData(Get(h, "nombreCientifico"), <<"N/A">>)),
          diferenciaClave |-> Str(formatTextualData(Get(h, "diferenciaClave"),
                                                    <<"No", "key", "difference", "provided.">>)),
          esToxico |-> IF Get(h, "esToxico").t = "boolean" THEN Get(h, "esToxico")
                       ELSE Bool(TRUE)]

\* items.filter(y => y !== null)
NonNull(items) == Arr(SelectSeq(items, LAMBDA y : y # JNull))

\* Array.isArray(x) ? x.map(Recipe).filter(r => r !== null) : []
Recipes(x) ==
    IF x.t = "array" THEN NonNull([i \in DOMAIN x.items |-> Recipe(x.items[i])])
    ELSE Arr(<<>>)

\* Array.isArray(x) ? x.map(SimilarMushroom).filter(h => h !== null) : []
SimilarMushrooms(x) ==
    IF x.t = "array" THEN NonNull([i \in DOMAIN x.items |-> SimilarMushroom(x.items[i])])
    ELSE Arr(<<>>)

\* String(x): an array is its items joined by commas, null and undefined
\* items as '', so String([]) is ''
RECURSIVE StringOf(_)
StringOf(x) ==
    CASE x.t = "undefined" -> <<"undefined">>
      [] x.t = "null" -> <<"null">>
      [] x.t = "boolean" -> (IF x.b THEN <<"true">> ELSE <<"false">>)
      [] x.t = "object" -> <<"[object", "Object]">>
      [] x.t = "array" ->
            LET item(y) == IF y.t \in {"null", "undefined"} THEN <<>> ELSE StringOf(y)
                joined[i \in 0..Len(x.items)] ==
                    IF i = 0 THEN <<>>
                    ELSE IF i = 1 THEN item(x.items[1])
                    ELSE joined[i - 1] \o <<",">> \o item(x.items[i])
            IN  joined[Len(x.items)]
      [] OTHER -> x.v

\* the callback of data.hongosSimilares.map in services/geminiService.ts
SimilarMushroomService(h) ==
    IF ~Truthy(h) \/ ~TypeofObject(h) \/ ~Truthy(Get(h, "nombreComun"))
       \/ ~Truthy(Get(h, "diferenciaClave"))
    THEN JNull
    ELSE [t |-> "object",
          nombreComun |-> Str(StringOf(Get(h, "nombreComun"))),
          nombreCientifico |-> Str(StringOf(IF Truthy(Get(h, "nombreCientifico"))
                                            THEN Get(h, "nombreCientifico")
                                            ELSE Str(<<"N/A">>))),
          diferenciaClave |-> Str(StringOf(Get(h, "diferenciaClave"))),
          esToxico |-> IF Get(h, "esToxico").t = "boolean" THEN Get(h, "esToxico")
                       ELSE Bool(TRUE)]

\* null is JNull
sanitizeMushroomInfo(data) ==
    IF ~Truthy(data) \/ ~TypeofObject(data) \/ Truthy(Get(data, "error")) THEN JNull
    ELSE LET sanitized ==
                 MushroomInfo(
                     formatTextualData(Get(data, "nombreComun"), NameNotAvailable),
                     formatTextualData(Get(data, "nombreCientifico"), ScientificNameNotAvailable),
                     formatTextualData(Get(data, "distribucionGeografica"), DistributionNotAvailable))
                 @@ [sinonimos |-> StringArray(Get(data, "sinonimos")),
                     descripcionGeneral |->
                         Str(formatTextualData(Get(data, "descripcionGeneral"),
                                               <<"No", "description", "available.">>)),
                     habitat |-> Str(formatTextualData(Get(data, "habitat"),
                                                       <<"Habitat", "not", "available.">>)),
                     temporada |-> Str(formatTextualData(Get(data, "temporada"),
                                                         <<"Season", "not", "available.">>)),
                     usosCulinarios |-> StringArray(Get(data, "usosCulinarios")),
                     toxicidad |-> ToxicityInfo(Get(data, "toxicidad")),
                     recetas |-> Recipes(Get(data, "recetas")),
                     hongosSimilares |-> SimilarMushrooms(Get(data, "hongosSimilares"))]
         IN  IF sanitized.nombreComun = Str(NameNotAvailable) THEN JNull ELSE sanitized

ComparisonInfo(resumenComparativo) ==
    [t |-> "object", resumenComparativo |-> Str(resumenComparativo)]

sanitizeComparisonInfo(data) ==
    IF ~Truthy(data) \/ ~TypeofObject(data) \/ Truthy(Get(data, "error")) THEN JNull
    ELSE ComparisonInfo(formatTextualData(Get(data, "resumenComparativo"), <<"N/A">>))
         @@ [usosCulinarios |->
                 [t |-> "object",
                  similitudes |-> StringArray(Get(Get(data, "usosCulinarios"), "similitudes")),
                  diferencias |-> StringArray(Get(Get(data, "usosCulinarios"), "diferencias"))],
             toxicidad |->
                 [t |-> "object",
                  comparacion |-> Str(formatTextualData(
                                          Get(Get(data, "toxicidad"), "comparacion"), <<"N/A">>)),
                  nivelHongoA |-> getToxicityLevel(Get(Get(data, "toxicidad"), "nivelHongoA")),
                  nivelHongoB |-> getToxicityLevel(Get(Get(data, "toxicidad"), "nivelHongoB"))],
             diferenciasMorfologicas |->
                 [t |-> "object",
                  habitat |-> Str(formatTextualData(
                                      Get(Get(data, "diferenciasMorfologicas"), "habitat"),
                                      <<"N/A">>)),
                  apariencia |-> Str(formatTextualData(
                                         Get(Get(data, "diferenciasMorfologicas"), "apariencia"),
                                         <<"N/A">>))]]

(***************************************************************************)
(* Provider outcomes.  A call to ai.models.generateContent either throws   *)
(* or returns a response; a text response carries response.text, an image *)
(* response carries or lacks a part with inlineData.                       *)
(***************************************************************************)
Thrown(e) == [kind |-> "throw", error |-> e, text |-> Text("absent", Undefined), inline |-> FALSE]
TextResponse(text) == [kind |-> "response", error |-> NoError, text |-> text, inline |-> FALSE]
ImageResponse(inline) == [kind |-> "response", error |-> NoError, text |-> Text("absent", Undefined), inline |-> inline]

\* A provider call as issued: model, kinds of the parts, and the config used
Call(model, parts, config) == [model |-> model, parts |-> parts, config |-> config]

(***************************************************************************)
(* One attempt of getMushroomInfo: the body of a try block after the call  *)
(* has settled with outcome out.                                           *)
(***************************************************************************)
MushroomAttempt(out) ==
    IF out.kind = "throw" THEN Throw(out.error)
    ELSE LET data == getJsonFromResponse(out.text) IN
         IF ~data.ok THEN data
         ELSE IF ~Truthy(data.value) THEN Throw(Err(<<"INVALID_RESPONSE">>))
         ELSE IF Truthy(Get(data.value, "error")) THEN Throw(Err(<<"IDENTIFY_FAILED">>))
         ELSE LET checked(sanitizedData) ==
                      IF ~Truthy(sanitizedData) THEN Throw(Err(<<"IDENTIFY_FAILED">>))
                      ELSE Return(sanitizedData)
              IN  checked(sanitizeMushroomInfo(data.value))

\* One attempt of compareMushrooms
ComparisonAttempt(out) ==
    IF out.kind = "throw" THEN Throw(out.error)
    ELSE LET data == getJsonFromResponse(out.text) IN
         IF ~data.ok THEN data
         ELSE IF ~Truthy(data.value) THEN Throw(Err(<<"INVALID_RESPONSE">>))
         ELSE IF Truthy(Get(data.value, "error")) THEN Throw(Err(<<"IDENTIFY_FAILED">>))
         ELSE LET checked(sanitizedData) ==
                      IF ~Truthy(sanitizedData) THEN Throw(Err(<<"INVALID_RESPONSE">>))
                      ELSE Return(sanitizedData)
              IN  checked(sanitizeComparisonInfo(data.value))

\* A URL is the sequence of its leading segments, so that startsWith can
\* tell a raster data URL from a vector one and from a blob reference.
\* `data:image/jpeg;base64,${base64ImageBytes}`
GeneratedImage == <<"data:image", "/jpeg", ";base64,", "generated">>

\* What generateMushroomImage and generateDistributionMap return once the
\* image call has settled with outcome out
ImageSignal(data, quota) == [data |-> data, isQuotaError |-> quota]

ImageOutcome(out) ==
    IF out.kind = "throw"
    THEN LET message == out.error.message IN
         ImageSignal(JNull,
                     Includes(message, <<"429">>)
                     \/ Includes(ToLowerCase(message),
                                 <<"resource", "has", "been", "exhausted">>))
    ELSE IF out.inline THEN ImageSignal(Str(GeneratedImage), FALSE)
    ELSE ImageSignal(JNull, FALSE)

\* a guard that skips the map for an empty distribution only
MutMapSkippedOnlyEmpty(mushroomInfo) == ~Truthy(mushroomInfo.distribucionGeografica)

\* The guard that skips the distribution map
MapSkipped(mushroomInfo) ==
    LET d == mushroomInfo.distribucionGeografica IN
    ~Truthy(d) \/ Includes(d.v, <<"no", "disponible">>) \/ Includes(d.v, <<"not", "available">>)

(***************************************************************************)
(* The service as a step function.  A state of one invocation holds where  *)
(* it is suspended (pc names the provider call it awaits), the calls it    *)
(* has issued, and its locals.  Begin runs the invocation up to its first  *)
(* await; Settle runs it from the settled call to the next await or to     *)
(* its end.                                                                *)
(***************************************************************************)
Ops == {"identifyMushroomFromImage", "identifyMushroomFromText", "compareMushrooms"}

NoResult ==
    [status |-> "none", error |-> NoError, mushroomInfo |-> JNull,
     imageSrc |-> Undefined, mapaDistribucionSrc |-> Undefined,
     mainImageGenerationFailed |-> FALSE, mapGenerationFailed |-> FALSE,
     comparison |-> JNull]

Idle ==
    [op |-> "none", apiKey |-> TRUE, pc |-> "idle", calls |-> <<>>, settled |-> <<>>,
     primaryError |-> NoError, fallbackError |-> NoError,
     mushroomInfo |-> JNull, image |-> ImageSignal(Undefined, FALSE),
     map |-> ImageSignal(Undefined, FALSE), result |-> NoResult]

Rejected(s, e) ==
    [s EXCEPT !.pc = "done",
              !.result = [NoResult EXCEPT !.status = "thrown", !.error = e]]

IssueCall(s, call, pc) == [s EXCEPT !.calls = Append(@, call), !.pc = pc]

\* finalParts and config of getMushroomInfo; compareMushrooms sends one text part
TextParts(op) ==
    IF op = "identifyMushroomFromImage" THEN <<"inlineData", "text">> ELSE <<"text">>

TextConfig(op) ==
    IF op = "identifyMushroomFromImage" THEN "googleSearch" ELSE "application/json"

PrimaryCall(op) == Call("gemini-3-pro-preview", TextParts(op), TextConfig(op))
SecondaryCall(op) == Call("gemini-2.5-flash", TextParts(op), TextConfig(op))
ImageCall == Call("gemini-3-pro-image-preview", <<"text">>, "IMAGE")

\* a quota failure of an image call thrown to the caller as API_QUOTA
MutIdentifyReturnThrowsOnQuota(s, mushroomInfo, image, map) ==
    LET t == [s EXCEPT !.pc = "done", !.mushroomInfo = mushroomInfo,
                       !.image = image, !.map = map]
        r == [NoResult EXCEPT !.status = "returned", !.mushroomInfo = mushroomInfo]
    IN  IF image.isQuotaError \/ map.isQuotaError
        THEN [t EXCEPT !.result = [NoResult EXCEPT !.status = "thrown",
                                                   !.error = Err(<<"API_QUOTA">>)]]
        ELSE [t EXCEPT !.result = [r EXCEPT !.imageSrc = image.data,
                                            !.mapaDistribucionSrc = map.data,
                                            !.mainImageGenerationFailed = (image.data = JNull),
                                            !.mapGenerationFailed = (map.data = JNull)]]

\* the flags report the quota failures only
MutIdentifyReturnFlagsQuota(s, mushroomInfo, image, map) ==
    LET t == [s EXCEPT !.pc = "done", !.mushroomInfo = mushroomInfo,
                       !.image = image, !.map = map]
        r == [NoResult EXCEPT !.status = "returned", !.mushroomInfo = mushroomInfo]
    IN  IF s.op = "identifyMushroomFromImage"
        THEN [t EXCEPT !.result = [r EXCEPT !.mapaDistribucionSrc = map.data,
                                            !.mapGenerationFailed = map.isQuotaError]]
        ELSE [t EXCEPT !.result = [r EXCEPT !.imageSrc = image.data,
                                            !.mapaDistribucionSrc = map.data,
                                            !.mainImageGenerationFailed = image.isQuotaError,
                                            !.mapGenerationFailed = map.isQuotaError]]

\* The return statements of identifyMushroomFromImage and identifyMushroomFromText
identifyReturn(s, mushroomInfo, image, map) ==
    LET t == [s EXCEPT !.pc = "done", !.mushroomInfo = mushroomInfo,
                       !.image = image, !.map = map]
        r == [NoResult EXCEPT !.status = "returned", !.mushroomInfo = mushroomInfo]
    IN  IF s.op = "identifyMushroomFromImage"
        THEN IF map.isQuotaError
             THEN [t EXCEPT !.result = [r EXCEPT !.mapaDistribucionSrc = JNull,
                                                 !.mapGenerationFailed = TRUE]]
             ELSE [t EXCEPT !.result = [r EXCEPT !.mapaDistribucionSrc = map.data,
                                                 !.mapGenerationFailed = (map.data = JNull)]]
        ELSE [t EXCEPT !.result = [r EXCEPT !.imageSrc = image.data,
                                            !.mapaDistribucionSrc = map.data,
                                            !.mainImageGenerationFailed = (image.data = JNull),
                                            !.mapGenerationFailed = (map.data = JNull)]]

\* generateDistributionMap up to its await
generateDistributionMap(s, mushroomInfo, image) ==
    IF MapSkipped(mushroomInfo)
    THEN identifyReturn(s, mushroomInfo, image, ImageSignal(JNull, FALSE))
    ELSE LET ai == getAiClient(s.apiKey) IN
         IF ~ai.ok
         THEN identifyReturn(s, mushroomInfo, image, ImageOutcome(Thrown(ai.error)))
         ELSE IssueCall([s EXCEPT !.mushroomInfo = mushroomInfo, !.image = image],
                        ImageCall, "map")

\* What follows `await getMushroomInfo(...)` in the two identify operations
afterMushroomInfo(s, mushroomInfo) ==
    IF s.op = "identifyMushroomFromText"
    THEN LET ai == getAiClient(s.apiKey) IN
         IF ~ai.ok
         THEN generateDistributionMap(s, mushroomInfo, ImageOutcome(Thrown(ai.error)))
         ELSE IssueCall([s EXCEPT !.mushroomInfo = mushroomInfo], ImageCall, "image")
    ELSE generateDistributionMap(s, mushroomInfo, ImageSignal(Undefined, FALSE))

compareReturn(s, comparison) ==
    [s EXCEPT !.pc = "done",
              !.result = [NoResult EXCEPT !.status = "returned", !.comparison = comparison]]

Attempt(op, out) ==
    IF op = "compareMushrooms" THEN ComparisonAttempt(out) ELSE MushroomAttempt(out)

Succeed(s, value) ==
    IF s.op = "compareMushrooms" THEN compareReturn(s, value) ELSE afterMushroomInfo(s, value)

Begin(op, apiKey) ==
    LET s == [Idle EXCEPT !.op = op, !.apiKey = apiKey]
        ai == getAiClient(apiKey)
    IN  IF ~ai.ok
        THEN IF op = "compareMushrooms" THEN Rejected(s, handleApiError(ai.error))
             ELSE Rejected(s, ai.error)
        ELSE IssueCall(s, PrimaryCall(op), "primary")

\* The primary call has settled: try block, then the catch of the first attempt
SettlePrimary(s, out) ==
    LET catch(r) ==
            IF r.ok THEN Succeed(s, r.value)
            ELSE LET t == [s EXCEPT !.primaryError = r.error] IN
                 IF isQuotaError(r.error) THEN IssueCall(t, SecondaryCall(s.op), "secondary")
                 ELSE Rejected(t, handleApiError(r.error))
    IN  catch(Attempt(s.op, out))

\* a failed secondary call is tried once more
MutSettleSecondaryRetries(s, out) ==
    LET catch(r) ==
            IF r.ok THEN Succeed(s, r.value)
            ELSE IssueCall([s EXCEPT !.fallbackError = r.error], SecondaryCall(s.op), "secondary")
    IN  catch(Attempt(s.op, out))

\* The secondary call has settled
SettleSecondary(s, out) ==
    LET catch(r) ==
            IF r.ok THEN Succeed(s, r.value)
            ELSE Rejected([s EXCEPT !.fallbackError = r.error], handleApiError(r.error))
    IN  catch(Attempt(s.op, out))

SettleImage(s, out) == generateDistributionMap(s, s.mushroomInfo, ImageOutcome(out))

SettleMap(s, out) == identifyReturn(s, s.mushroomInfo, s.image, ImageOutcome(out))

\* settled records the outcome of each call, in the order of calls
Settle(s, out) ==
    LET t == [s EXCEPT !.settled = Append(@, out)] IN
    CASE s.pc = "primary" -> SettlePrimary(t, out)
      [] s.pc = "secondary" -> SettleSecondary(t, out)
      [] s.pc = "image" -> SettleImage(t, out)
      [] s.pc = "map" -> SettleMap(t, out)
      [] OTHER -> s

(***************************************************************************)
(* What the provider can answer                                            *)
(***************************************************************************)
ErrorValues == {Undefined, Str(<<"Could", "not", "identify">>)}
NombreComunValues == {Undefined, Str(<<>>), Str(<<"Death", "cap">>)}
NombreCientificoValues == {Undefined, Str(<<"Amanita", "phalloides">>)}
DistribucionValues ==
    {Undefined, Str(<<"Europe">>), Str(<<"Distribucion", "no", "disponible">>)}

RawObjects ==
    { [t |-> "object", error |-> e, nombreComun |-> c, nombreCientifico |-> n,
       distribucionGeografica |-> d] :
        e \in ErrorValues, c \in NombreComunValues,
        n \in NombreCientificoValues, d \in DistribucionValues }

RawData == {JNull, Num(<<"0">>), Num(<<"5">>)} \cup RawObjects

Texts ==
    { Text(f, d) : f \in {"json", "fenced"}, d \in RawData }
    \cup { Text(f, Undefined) : f \in {"fencedBad", "fencedEmpty", "prose", "absent"} }

TextOutcomes == { Thrown(e) : e \in ProviderErrors } \cup { TextResponse(x) : x \in Texts }

ImageOutcomes == { Thrown(e) : e \in ProviderErrors } \cup { ImageResponse(b) : b \in BOOLEAN }

OutcomesAt(pc) == IF pc \in {"primary", "secondary"} THEN TextOutcomes ELSE ImageOutcomes

(***************************************************************************)
(* Runs of the service.  An invocation started by the App runs to its end  *)
(* against a script: the outcomes of the provider calls it will issue, in  *)
(* order.                                                                  *)
(***************************************************************************)
RECURSIVE Run(_, _)
Run(s, script) ==
    IF s.pc \in {"idle", "done"} \/ script = <<>> THEN s
    ELSE Run(Settle(s, Head(script)), Tail(script))

GoodJson ==
    Text("json", [t |-> "object", error |-> Undefined,
                  nombreComun |-> Str(<<"Death", "cap">>),
                  nombreCientifico |-> Str(<<"Amanita", "phalloides">>),
                  distribucionGeografica |-> Str(<<"Europe">>)])

\* everything succeeds; the text model answers; both image calls fail;
\* the answer is prose; the quota is exhausted on both tiers
Scripts ==
    { <<TextResponse(GoodJson), ImageResponse(TRUE), ImageResponse(TRUE)>>,
      <<TextResponse(GoodJson), Thrown(Err(Msg429)), ImageResponse(FALSE)>>,
      <<TextResponse(Text("prose", Undefined))>>,
      <<Thrown(Err(MsgExhausted)), Thrown(Err(MsgExhausted))>> }

ServiceResult(op, apiKey, script) == Run(Begin(op, apiKey), script).result

(***************************************************************************)
(* Image normalization and thumbnails                                      *)
(***************************************************************************)
StartsWith(src, prefix) ==
    Len(src) >= Len(prefix) /\ SubSeq(src, 1, Len(prefix)) = prefix

\* URL.createObjectURL(file)
PhotoBlobUrl == <<"blob:", "photo">>
\* reader.result of blobUrlToDataUrl
PhotoDataUrl == <<"data:image", "/jpeg", ";base64,", "photo">>
\* canvas.toDataURL('image/png') and canvas.toDataURL('image/jpeg', 0.85)
CanvasPng == <<"data:image", "/png", ";base64,", "canvas">>
CanvasJpeg == <<"data:image", "/jpeg", ";base64,", "thumbnail">>

createPlaceholderImage == <<"data:image", "/svg+xml", ";base64,", "placeholder">>
getFallbackMushroomIcon == <<"data:image", "/svg+xml", ";base64,", "icon">>

\* What loading an image into a canvas can do: onload with a 2D context,
\* onerror, onload without a 2D context
ImageLoads == {"load", "error", "noContext"}
\* and canvas.toDataURL throwing on a canvas tainted by a cross-origin image
CanvasOutcomes == ImageLoads \cup {"tainted"}

\* The promise of imageToDataUrl: Return is resolve, Throw is reject
imageToDataUrl(src, load) ==
    IF ~Truthy(src) THEN Return(Str(<<>>))
    ELSE IF StartsWith(src.v, <<"data:image", "/svg+xml">>) THEN Return(src)
    ELSE CASE load = "load" -> Return(Str(CanvasPng))
           [] load = "error" -> Return(Str(createPlaceholderImage))
           [] load = "noContext" -> Throw(Err(<<"Failed", "to", "get", "canvas", "context.">>))
           [] OTHER -> Throw(Err(<<"Failed", "to", "convert", "canvas", "to", "data", "URL",
                                     "due", "to", "security", "restrictions.">>))

\* A JavaScript number that need not be whole is the fraction num/den in
\* lowest terms
RECURSIVE GCD(_, _)
GCD(a, b) == IF b = 0 THEN a ELSE GCD(b, a % b)

Frac(n, d) == [num |-> n \div GCD(n, d), den |-> d \div GCD(n, d)]

\* only a landscape image is scaled
MutThumbnailSizeLandscapeOnly(width, height, maxSize) ==
    IF width > maxSize
    THEN [width |-> Frac(maxSize, 1), height |-> Frac(height * maxSize, width)]
    ELSE [width |-> Frac(width, 1), height |-> Frac(height, 1)]

\* width and height as createThumbnail's onload leaves them for an image of
\* width x height
ThumbnailSize(width, height, maxSize) ==
    IF width > height
    THEN IF width > maxSize
         THEN [width |-> Frac(maxSize, 1), height |-> Frac(height * maxSize, width)]
         ELSE [width |-> Frac(width, 1), height |-> Frac(height, 1)]
    ELSE IF height > maxSize
         THEN [width |-> Frac(width * maxSize, height), height |-> Frac(maxSize, 1)]
         ELSE [width |-> Frac(width, 1), height |-> Frac(height, 1)]

\* canvas.width = width: the attribute keeps the whole part
CanvasSide(x) == x.num \div x.den

\* createThumbnail always resolves
createThumbnail(dataUrl, load) ==
    IF ~Truthy(dataUrl) \/ ~StartsWith(dataUrl.v, <<"data:image">>) THEN dataUrl
    ELSE IF StartsWith(dataUrl.v, <<"data:image", "/svg+xml">>) THEN dataUrl
    ELSE CASE load = "load" -> Str(CanvasJpeg)
           [] load = "error" -> Str(getFallbackMushroomIcon)
           [] OTHER -> dataUrl

(***************************************************************************)
(* History entries.  An entry is a JavaScript object: a record with the    *)
(* tag t and one tagged value per property; a property that was never      *)
(* assigned is not in the record's domain.                                 *)
(***************************************************************************)
Millis(n) == [t |-> "number", n |-> n]

\* { ...obj, ...updates }
Spread(obj, updates) == updates @@ obj

\* obj.key of an entry; undefined when the property is missing
Prop(obj, key) == IF key \in DOMAIN obj THEN obj[key] ELSE Undefined

\* x ?? undefined
OrUndefined(x) == IF x.t \in {"null", "undefined"} THEN Undefined ELSE x

\* `${Date.now()}-${mushroomInfo.nombreCientifico}`
EntryId(now, mushroomInfo) == Str(<<ToString(now), "-">> \o mushroomInfo.nombreCientifico.v)

\* The object literal processImage hands to handleProcessResult
ImageEntry(now, imageSrcDataUrl, res) ==
    [t |-> "object",
     id |-> EntryId(now, res.mushroomInfo),
     timestamp |-> Millis(now),
     imageSrc |-> imageSrcDataUrl,
     type |-> Str(<<"mushroom">>),
     mushroomInfo |-> res.mushroomInfo,
     mapaDistribucionSrc |-> OrUndefined(res.mapaDistribucionSrc),
     mapGenerationFailed |-> Bool(res.mapGenerationFailed)]

\* The object literal handleTextSearch hands to handleProcessResult
TextEntry(now, res) ==
    [t |-> "object",
     id |-> EntryId(now, res.mushroomInfo),
     timestamp |-> Millis(now),
     imageSrc |-> IF Truthy(res.imageSrc) THEN res.imageSrc ELSE Str(getFallbackMushroomIcon),
     type |-> Str(<<"mushroom">>),
     mushroomInfo |-> res.mushroomInfo,
     mapaDistribucionSrc |-> OrUndefined(res.mapaDistribucionSrc),
     mainImageGenerationFailed |-> Bool(res.mainImageGenerationFailed),
     mapGenerationFailed |-> Bool(res.mapGenerationFailed)]

\* The object literal handleComparisonSearch stores as mushroomB
ComparisonEntry(now, res) ==
    [t |-> "object",
     id |-> EntryId(now, res.mushroomInfo),
     timestamp |-> Millis(now),
     imageSrc |-> IF Truthy(res.imageSrc) THEN res.imageSrc ELSE Str(getFallbackMushroomIcon),
     type |-> Str(<<"mushroom">>),
     mushroomInfo |-> res.mushroomInfo,
     mapaDistribucionSrc |-> OrUndefined(res.mapaDistribucionSrc)]

(***************************************************************************)
(* JSON.  JSON.stringify leaves out the properties whose value is          *)
(* undefined; the text is modelled by the value it encodes.                *)
(***************************************************************************)
RECURSIVE JsonValue(_)
JsonValue(x) ==
    IF x.t = "object"
    THEN [k \in {j \in DOMAIN x : j = "t" \/ x[j].t # "undefined"} |->
              IF k = "t" THEN "object" ELSE JsonValue(x[k])]
    ELSE IF x.t = "array"
    THEN Arr([i \in DOMAIN x.items |->
                  IF x.items[i].t = "undefined" THEN JNull ELSE JsonValue(x.items[i])])
    ELSE x

\* JSON.stringify(list)
JsonStringify(list) == [t |-> "json", text |-> [i \in DOMAIN list |-> JsonValue(list[i])]]

\* JSON.parse(text)
JsonParse(stored) == stored.text

\* localStorage.getItem returns null for a key that was never written
EmptyStorage == [mushroomHistory |-> JNull, mushroomCollection |-> JNull]

(***************************************************************************)
(* The History and Collection stores.  st holds the two lists of the App   *)
(* state and the device's localStorage.                                    *)
(***************************************************************************)
\* the bound of History
HistoryLimit == 30

\* const [difficultyLevel, ...] = useState('Intermediate')
difficultyLevel == Str(<<"Intermediate">>)

\* every entry and nothing cut off
MutSliceKeepsAll(list, n) == list

\* list.slice(0, n)
Slice(list, n) == SubSeq(list, 1, IF Len(list) < n THEN Len(list) ELSE n)

\* Array.prototype.sort with (a, b) => b.timestamp - a.timestamp is stable:
\* e goes behind every entry that is not older than it
RECURSIVE InsertByTimestamp(_, _)
InsertByTimestamp(e, sorted) ==
    IF sorted = <<>> THEN <<e>>
    ELSE IF Head(sorted).timestamp.n >= e.timestamp.n
         THEN <<Head(sorted)>> \o InsertByTimestamp(e, Tail(sorted))
         ELSE <<e>> \o sorted

RECURSIVE SortByTimestampDesc(_)
SortByTimestampDesc(list) ==
    IF list = <<>> THEN <<>>
    ELSE InsertByTimestamp(list[Len(list)],
                           SortByTimestampDesc(SubSeq(list, 1, Len(list) - 1)))

\* the list is set in memory and nothing is written to the device
MutSaveHistoryInMemoryOnly(st, newHistory) ==
    [st EXCEPT !.history = SortByTimestampDesc(newHistory)]

saveHistory(st, newHistory) ==
    LET sorted == SortByTimestampDesc(newHistory) IN
    [st EXCEPT !.history = sorted,
               !.localStorage = [@ EXCEPT !.mushroomHistory = JsonStringify(sorted)]]

\* the list is written under the key of the other store
MutSaveCollectionUnderHistoryKey(st, newCollection) ==
    [st EXCEPT !.collection = newCollection,
               !.localStorage = [@ EXCEPT !.mushroomHistory = JsonStringify(newCollection)]]

saveCollection(st, newCollection) ==
    [st EXCEPT !.collection = newCollection,
               !.localStorage = [@ EXCEPT !.mushroomCollection = JsonStringify(newCollection)]]

\* history is the list the handler closed over when its request started
handleProcessResult(st, newEntry, history, load) ==
    LET map == Prop(newEntry, "mapaDistribucionSrc")
        cleanImageSrc == imageToDataUrl(newEntry.imageSrc, load)
        cleanMapSrc == IF Truthy(map) THEN imageToDataUrl(map, load) ELSE Return(Undefined)
    IN  IF cleanImageSrc.ok /\ cleanMapSrc.ok
        THEN LET thumbImageSrc == createThumbnail(cleanImageSrc.value, load)
                 thumbMapSrc == IF Truthy(cleanMapSrc.value)
                                THEN createThumbnail(cleanMapSrc.value, load)
                                ELSE Undefined
                 finalEntry == Spread(newEntry, [imageSrc |-> cleanImageSrc.value,
                                                 mapaDistribucionSrc |-> cleanMapSrc.value,
                                                 difficulty |-> difficultyLevel])
                 historyEntry == Spread(newEntry, [imageSrc |-> thumbImageSrc,
                                                   mapaDistribucionSrc |-> thumbMapSrc,
                                                   difficulty |-> difficultyLevel])
             IN  [currentResult |-> finalEntry,
                  stores |-> saveHistory(st, Slice(<<historyEntry>> \o history, HistoryLimit))]
        ELSE [currentResult |-> newEntry,
              stores |-> saveHistory(st, Slice(<<newEntry>> \o history, HistoryLimit))]

\* the entry handleProcessResult stores for newEntry
StoredEntry(newEntry, load) ==
    Head(handleProcessResult(
             [history |-> <<>>, collection |-> <<>>, localStorage |-> EmptyStorage],
             newEntry, <<>>, load).stores.history)

\* the message key processError displays
processError(err) ==
    LET errorCode == IF err.message # <<>> THEN err.message ELSE <<"UNEXPECTED_ERROR">> IN
    CASE errorCode = <<"SERVICE_CONFIG_ERROR_API_KEY_MISSING">> ->
             Str(<<"error_service_config_api_key_missing">>)
      [] errorCode = <<"API_QUOTA">> -> Str(<<"error_api_quota">>)
      [] errorCode = <<"SERVICE_CONFIG_ERROR">> -> Str(<<"error_service_config">>)
      [] errorCode = <<"NETWORK_ERROR">> -> Str(<<"error_network">>)
      [] errorCode = <<"INVALID_RESPONSE">> -> Str(<<"error_invalidResponse">>)
      [] errorCode = <<"IDENTIFY_FAILED">> -> Str(<<"error_identify_failed">>)
      [] errorCode = <<"IMAGE_UPLOAD_ERROR">> -> Str(<<"error_imageUpload">>)
      [] OTHER -> Str(<<"unexpectedError">>)

\* reader.result once blobUrlToDataUrl has read the selected file
blobUrlToDataUrl(image) == Str(PhotoDataUrl)

\* the entry a request of kind processImage or handleTextSearch builds from
\* the service result res at time now
NewEntry(r, now, res) ==
    IF r.kind = "processImage"
    THEN ImageEntry(now, blobUrlToDataUrl(r.image), res)
    ELSE TextEntry(now, res)

\* the failed attempt stores an entry all the same
MutSettleStoresOnFailure(st, shown, res, r, now, load) ==
    IF res.status = "returned"
    THEN LET p == handleProcessResult(st, NewEntry(r, now, res), r.history, load) IN
         [stores |-> p.stores, currentResult |-> p.currentResult, error |-> shown.error]
    ELSE LET unknown == MushroomInfo(NameNotAvailable, ScientificNameNotAvailable,
                                     DistributionNotAvailable)
             p == handleProcessResult(
                      st, NewEntry(r, now, [res EXCEPT !.mushroomInfo = unknown]),
                      r.history, load)
         IN  [stores |-> p.stores, currentResult |-> shown.currentResult,
              error |-> processError(res.error)]

\* try and catch of processImage and handleTextSearch once the service call
\* has settled with res; shown holds currentResult and error as they are,
\* r is the request: its kind and what it closed over when it started
settleIdentification(st, shown, res, r, now, load) ==
    IF res.status = "returned"
    THEN LET p == handleProcessResult(st, NewEntry(r, now, res), r.history, load) IN
         [stores |-> p.stores, currentResult |-> p.currentResult, error |-> shown.error]
    ELSE [stores |-> st, currentResult |-> shown.currentResult,
          error |-> processError(res.error)]

HasId(list, id) == \E i \in DOMAIN list : list[i].id = id

\* collection.filter(entry => entry.id !== id)
WithoutId(list, id) == SelectSeq(list, LAMBDA entry : entry.id # id)

\* collection.find(c => c.id === id), undefined when there is none
FindId(list, id) ==
    IF HasId(list, id)
    THEN list[CHOOSE i \in DOMAIN list : list[i].id = id /\ \A j \in 1..(i - 1) : list[j].id # id]
    ELSE Undefined

handleRemoveFromCollection(st, id) == saveCollection(st, WithoutId(st.collection, id))

\* the entry is put in front of the collection as it is when the thumbnails
\* are made
MutToggleAddOntoLatest(st, currentResult, collection, load) ==
    LET map == Prop(currentResult, "mapaDistribucionSrc")
        thumbImageSrc == createThumbnail(currentResult.imageSrc, load)
        thumbMapSrc == IF Truthy(map) THEN createThumbnail(map, load) ELSE Undefined
        finalEntry == Spread(currentResult, [imageSrc |-> thumbImageSrc,
                                             mapaDistribucionSrc |-> thumbMapSrc])
    IN  [stores |-> saveCollection(st, <<finalEntry>> \o st.collection),
         editingDiaryEntry |-> finalEntry]

\* the add branch of handleToggleCollection after its thumbnails are made;
\* currentResult and collection are the values the handler closed over
toggleAdd(st, currentResult, collection, load) ==
    LET map == Prop(currentResult, "mapaDistribucionSrc")
        thumbImageSrc == createThumbnail(currentResult.imageSrc, load)
        thumbMapSrc == IF Truthy(map) THEN createThumbnail(map, load) ELSE Undefined
        finalEntry == Spread(currentResult, [imageSrc |-> thumbImageSrc,
                                             mapaDistribucionSrc |-> thumbMapSrc])
    IN  [stores |-> saveCollection(st, <<finalEntry>> \o collection),
         editingDiaryEntry |-> finalEntry]

\* what the field diary's form hands to onSave
DiaryData(notes, date, location, photos) ==
    [personalNotes |-> Str(notes), findingDate |-> Str(date),
     location |-> location, userPhotos |-> Arr(photos)]

\* handlePhotoSelection: a thumbnail of the object URL of each chosen file
SelectedPhoto == createThumbnail(Str(PhotoBlobUrl), "load")

DiaryForms ==
    { DiaryData(<<"under", "oaks">>, <<"2026-11-06">>,
                [t |-> "object", latitude |-> Num(<<"40">>), longitude |-> Num(<<"-3">>)],
                <<SelectedPhoto>>) }

\* the diary fields merged into every entry of the collection
MutHandleSaveDiaryEveryEntry(st, shown, editingDiaryEntry, diaryData) ==
    [stores |-> saveCollection(st, [i \in DOMAIN st.collection |->
                                        Spread(st.collection[i], diaryData)]),
     currentResult |-> shown.currentResult]

handleSaveDiary(st, shown, editingDiaryEntry, diaryData) ==
    LET updatedCollection ==
            [i \in DOMAIN st.collection |->
                IF st.collection[i].id = editingDiaryEntry.id
                THEN Spread(st.collection[i], diaryData)
                ELSE st.collection[i]]
    IN  [stores |-> saveCollection(st, updatedCollection),
         currentResult |->
             IF Truthy(shown.currentResult) /\ shown.currentResult.id = editingDiaryEntry.id
             THEN Spread(shown.currentResult, diaryData)
             ELSE shown.currentResult]

(***************************************************************************)
(* State                                                                   *)
(***************************************************************************)
VARIABLES
    svc,                  \* the service invocation of the service-only specification
    mounted,              \* the App's mount effect has run
    view, image, isLoading, error, currentResult,
    history, collection,
    localStorage,         \* the keys 'mushroomHistory' and 'mushroomCollection'
    comparisonMushrooms, comparisonResult,
    isHistoryOpen, isCollectionOpen, isFieldDiaryOpen, editingDiaryEntry,
    requests,             \* identification and comparison requests in flight
    thumbnails,           \* add-to-collection handlers awaiting their thumbnails
    started,              \* number of identifications started
    compared,             \* number of requests started in the comparator
    now,                  \* Date.now()
    apiKey,               \* a usable credential is in the environment
    canvas,               \* what loading an image into a canvas does on this device
    appended,             \* every entry appended to History, oldest first
    last,                 \* the handler that ran last and how it ended
    applied               \* the last application of a function on its own

appVars ==
    <<mounted, view, image, isLoading, error, currentResult, history, collection,
      localStorage, comparisonMushrooms, comparisonResult, isHistoryOpen,
      isCollectionOpen, isFieldDiaryOpen, editingDiaryEntry, requests, thumbnails,
      started, compared, now, apiKey, canvas, appended, last>>

vars == <<svc, appVars, applied>>

screen == <<view, image, isLoading, error, currentResult>>
comparator == <<comparisonMushrooms, comparisonResult>>
modals == <<isHistoryOpen, isCollectionOpen, isFieldDiaryOpen, editingDiaryEntry>>
environment == <<svc, mounted, apiKey, canvas, applied>>
counters == <<started, compared>>

Stores == [history |-> history, collection |-> collection, localStorage |-> localStorage]

Shown == [currentResult |-> currentResult, error |-> error]

\* the stores become st
Commit(st) ==
    /\ history' = st.history
    /\ collection' = st.collection
    /\ localStorage' = st.localStorage

Did(name, outcome) == last' = [name |-> name, outcome |-> outcome]

NoComparison == [mushroomA |-> JNull, mushroomB |-> JNull]

\* fn was called with input and returned or threw output
Applied(fn, input, output) == [fn |-> fn, input |-> input, output |-> output]

\* The state of useState's initial values, on a device with storage; started
\* counts the requests of the earlier session too
FreshApp(storage, key, load) ==
    /\ mounted = FALSE
    /\ view = "main"
    /\ image = JNull
    /\ isLoading = FALSE
    /\ error = JNull
    /\ currentResult = JNull
    /\ history = <<>>
    /\ collection = <<>>
    /\ localStorage = storage
    /\ comparisonMushrooms = NoComparison
    /\ comparisonResult = JNull
    /\ isHistoryOpen = FALSE
    /\ isCollectionOpen = FALSE
    /\ isFieldDiaryOpen = FALSE
    /\ editingDiaryEntry = JNull
    /\ requests = {}
    /\ thumbnails = {}
    /\ started = (IF storage = EmptyStorage THEN 0 ELSE 1)
    /\ compared = 0
    /\ now = (IF storage = EmptyStorage THEN 0 ELSE 1)
    /\ apiKey = key
    /\ canvas = load
    /\ appended = <<>>
    /\ last = [name |-> "none", outcome |-> "none"]
    /\ applied = Applied("none", Undefined, Return(Undefined))

\* What an earlier session of the App leaves on the device: one text search
\* at time 0, its result added to the collection, its diary filled in
FullScript == <<TextResponse(GoodJson), ImageResponse(TRUE), ImageResponse(TRUE)>>

EarlierSession ==
    LET res == ServiceResult("identifyMushroomFromText", TRUE, FullScript)
        p == handleProcessResult(
                 [history |-> <<>>, collection |-> <<>>, localStorage |-> EmptyStorage],
                 TextEntry(0, res), <<>>, "load")
        a == toggleAdd(p.stores, p.currentResult, <<>>, "load")
        d == handleSaveDiary(a.stores, [currentResult |-> p.currentResult, error |-> JNull],
                             a.editingDiaryEntry,
                             DiaryData(<<"under", "oaks">>, <<"2026-11-05">>, Undefined, <<>>))
    IN  d.stores.localStorage

Storages == {EmptyStorage, EarlierSession}

\* A device has a 2D canvas context or has none
DeviceLoads == {"load", "noContext"}

Init ==
    /\ svc = Idle
    /\ \E storage \in Storages, key \in BOOLEAN, load \in DeviceLoads :
           FreshApp(storage, key, load)

(***************************************************************************)
(* The service on its own: one invocation at a time, from its call to its  *)
(* return or throw.                                                        *)
(***************************************************************************)
SvcInit == svc = Idle /\ FreshApp(EmptyStorage, TRUE, "load")

\* A caller invokes one of the three exported operations
SvcBegin ==
    /\ svc.pc \in {"idle", "done"}
    /\ \E op \in Ops, key \in BOOLEAN : svc' = Begin(op, key)
    /\ UNCHANGED <<appVars, applied>>

\* The provider call the invocation awaits settles
SvcSettle ==
    /\ svc.pc \in {"primary", "secondary", "image", "map"}
    /\ \E out \in OutcomesAt(svc.pc) : svc' = Settle(svc, out)
    /\ UNCHANGED <<appVars, applied>>

SvcNext == SvcBegin \/ SvcSettle

SpecSvc == SvcInit /\ [][SvcNext]_vars

(***************************************************************************)
(* The App.  What the screen offers decides which handler can run.         *)
(***************************************************************************)
ModalOpen ==
    isHistoryOpen \/ isCollectionOpen \/ (isFieldDiaryOpen /\ editingDiaryEntry # JNull)

OnMain == mounted /\ ~ModalOpen /\ view = "main" /\ ~isLoading
ShowsError == OnMain /\ error # JNull
ShowsResult == OnMain /\ error = JNull /\ currentResult # JNull
ShowsImage == OnMain /\ error = JNull /\ currentResult = JNull /\ image # JNull
ShowsMainInput == OnMain /\ error = JNull /\ currentResult = JNull /\ image = JNull
OnComparator == mounted /\ ~ModalOpen /\ view = "comparator"

\* useEffect(() => { ...localStorage.getItem... }, [])
Mount ==
    /\ ~mounted
    /\ mounted' = TRUE
    /\ history' = IF localStorage.mushroomHistory # JNull
                  THEN JsonParse(localStorage.mushroomHistory) ELSE history
    /\ collection' = IF localStorage.mushroomCollection # JNull
                     THEN JsonParse(localStorage.mushroomCollection) ELSE collection
    /\ appended' = IF localStorage.mushroomHistory # JNull
                   THEN [i \in DOMAIN JsonParse(localStorage.mushroomHistory) |->
                            JsonParse(localStorage.mushroomHistory)[
                                Len(JsonParse(localStorage.mushroomHistory)) + 1 - i]]
                   ELSE appended
    /\ Did("Mount", "none")
    /\ UNCHANGED <<svc, screen, localStorage, comparator, modals, requests, thumbnails,
                   counters, now, apiKey, canvas, applied>>

\* handleReset's assignments
Reset ==
    /\ image' = JNull
    /\ currentResult' = JNull
    /\ error' = JNull
    /\ isLoading' = FALSE
    /\ view' = "main"
    /\ comparisonMushrooms' = NoComparison
    /\ comparisonResult' = JNull

handleReset ==
    /\ ShowsError \/ ShowsResult \/ OnComparator
    /\ Reset
    /\ Did("handleReset", "none")
    /\ UNCHANGED <<environment, now, history, collection, localStorage, modals, requests,
                   thumbnails, counters, appended>>

\* a file of any type is selected
MutHandleFileChangeAnyType ==
    /\ ShowsMainInput
    /\ \E isImage \in BOOLEAN :
         /\ currentResult' = JNull
         /\ error' = JNull
         /\ isLoading' = FALSE
         /\ view' = "main"
         /\ comparisonMushrooms' = NoComparison
         /\ comparisonResult' = JNull
         /\ image' = [t |-> "object", src |-> Str(PhotoBlobUrl)]
         /\ Did("handleFileChange", IF isImage THEN "selected" ELSE "refused")
    /\ UNCHANGED <<environment, now, history, collection, localStorage, modals, requests,
                   thumbnails, counters, appended>>


\* MainInput.handleFileChange: a file that is not an image is refused,
\* an image goes to handleImageSelect
handleFileChange ==
    /\ ShowsMainInput
    /\ \E isImage \in BOOLEAN :
         IF isImage
         THEN /\ currentResult' = JNull
              /\ error' = JNull
              /\ isLoading' = FALSE
              /\ view' = "main"
              /\ comparisonMushrooms' = NoComparison
              /\ comparisonResult' = JNull
              /\ image' = [t |-> "object", src |-> Str(PhotoBlobUrl)]
              /\ Did("handleFileChange", "selected")
         ELSE /\ error' = processError(Err(<<"IMAGE_UPLOAD_ERROR">>))
              /\ Did("handleFileChange", "refused")
              /\ UNCHANGED <<view, image, isLoading, currentResult, comparator>>
    /\ UNCHANGED <<environment, now, history, collection, localStorage, modals, requests,
                   thumbnails, counters, appended>>

\* the `change photo` button
changePhoto ==
    /\ ShowsImage
    /\ image' = JNull
    /\ Did("changePhoto", "none")
    /\ UNCHANGED <<environment, now, view, isLoading, error, currentResult, history, collection,
                   localStorage, comparator, modals, requests, thumbnails, counters,
                   appended>>

\* rid tells apart the requests started so far
Request(kind) ==
    [rid |-> started + compared + 1, kind |-> kind, history |-> history, image |-> image]

\* processImage up to its first await
processImage ==
    /\ ShowsImage
    /\ isLoading' = TRUE
    /\ error' = JNull
    /\ currentResult' = JNull
    /\ requests' = requests \cup {Request("processImage")}
    /\ started' = started + 1
    /\ Did("processImage", "started")
    /\ UNCHANGED <<environment, now, compared, view, image, history, collection, localStorage, comparator,
                   modals, thumbnails, appended>>

\* handleTextSearch up to its await
handleTextSearch ==
    /\ ShowsMainInput
    /\ image' = JNull
    /\ currentResult' = JNull
    /\ error' = JNull
    /\ view' = "main"
    /\ comparisonMushrooms' = NoComparison
    /\ comparisonResult' = JNull
    /\ isLoading' = TRUE
    /\ requests' = requests \cup {Request("handleTextSearch")}
    /\ started' = started + 1
    /\ Did("handleTextSearch", "started")
    /\ UNCHANGED <<environment, now, compared, history, collection, localStorage, modals, thumbnails,
                   appended>>

\* The rest of processImage and of handleTextSearch: the awaited calls have
\* settled.  script is what the provider answers, read is FileReader's
\* outcome for the selected file, elapsed is the time since Date.now() was
\* read last.
identificationSettled(elapsed, script) ==
    \E r \in requests, read \in BOOLEAN :
        /\ r.kind \in {"processImage", "handleTextSearch"}
        /\ r.kind = "handleTextSearch" => read
        /\ LET res == IF ~read
                      THEN [NoResult EXCEPT !.status = "thrown", !.error = NonErr(<<>>)]
                      ELSE ServiceResult(IF r.kind = "processImage"
                                         THEN "identifyMushroomFromImage"
                                         ELSE "identifyMushroomFromText", apiKey, script)
               s == settleIdentification(Stores, Shown, res, r, now + elapsed, canvas)
           IN  /\ Commit(s.stores)
               /\ currentResult' = s.currentResult
               /\ error' = s.error
               /\ appended' = IF res.status = "returned"
                              THEN Append(appended,
                                          StoredEntry(NewEntry(r, now + elapsed, res), canvas))
                              ELSE appended
               /\ Did(r.kind, res.status)
        /\ isLoading' = FALSE
        /\ image' = IF r.kind = "processImage" THEN JNull ELSE image
        /\ requests' = requests \ {r}
        /\ now' = now + elapsed
        /\ UNCHANGED <<environment, view, comparator, modals, thumbnails, counters>>

\* handleComparisonSearch up to its await
handleComparisonSearch ==
    /\ OnComparator
    /\ ~isLoading
    /\ comparisonMushrooms.mushroomA # JNull
    /\ comparisonMushrooms.mushroomB = JNull
    /\ isLoading' = TRUE
    /\ error' = JNull
    /\ comparisonResult' = JNull
    /\ requests' = requests \cup {[Request("handleComparisonSearch") EXCEPT !.history = <<>>]}
    /\ compared' = compared + 1
    /\ Did("handleComparisonSearch", "started")
    /\ UNCHANGED <<environment, now, view, image, currentResult, history, collection,
                   localStorage, comparisonMushrooms, modals, thumbnails, started,
                   appended>>

\* the rest of handleComparisonSearch
comparisonSearchSettled(elapsed) ==
    \E r \in requests, script \in Scripts :
        /\ r.kind = "handleComparisonSearch"
        /\ LET res == ServiceResult("identifyMushroomFromText", apiKey, script) IN
           /\ IF res.status = "returned"
              THEN /\ comparisonMushrooms' =
                          [comparisonMushrooms EXCEPT
                              !.mushroomB = ComparisonEntry(now + elapsed, res)]
                   /\ error' = error
              ELSE /\ error' = processError(res.error)
                   /\ comparisonMushrooms' = comparisonMushrooms
           /\ Did(r.kind, res.status)
        /\ isLoading' = FALSE
        /\ requests' = requests \ {r}
        /\ now' = now + elapsed
        /\ UNCHANGED <<environment, view, image, currentResult, history, collection,
                       localStorage, comparisonResult, modals, thumbnails, counters,
                       appended>>

\* handleGenerateComparison up to its await
handleGenerateComparison ==
    /\ OnComparator
    /\ ~isLoading
    /\ comparisonMushrooms.mushroomA # JNull
    /\ comparisonMushrooms.mushroomB # JNull
    /\ isLoading' = TRUE
    /\ error' = JNull
    /\ comparisonResult' = JNull
    /\ requests' = requests \cup {[Request("handleGenerateComparison") EXCEPT !.history = <<>>]}
    /\ compared' = compared + 1
    /\ Did("handleGenerateComparison", "started")
    /\ UNCHANGED <<environment, now, view, image, currentResult, history, collection,
                   localStorage, comparisonMushrooms, modals, thumbnails, started,
                   appended>>

\* the rest of handleGenerateComparison
comparisonSettled ==
    \E r \in requests, script \in Scripts :
        /\ r.kind = "handleGenerateComparison"
        /\ LET res == ServiceResult("compareMushrooms", apiKey, script) IN
           /\ IF res.status = "returned"
              THEN comparisonResult' = res.comparison /\ error' = error
              ELSE error' = processError(res.error) /\ comparisonResult' = comparisonResult
           /\ Did(r.kind, res.status)
        /\ isLoading' = FALSE
        /\ requests' = requests \ {r}
        /\ UNCHANGED <<environment, now, view, image, currentResult, history, collection,
                       localStorage, comparisonMushrooms, modals, thumbnails, counters,
                       appended>>

\* the History button of the main screen
openHistory ==
    /\ ShowsMainInput
    /\ history # <<>>
    /\ isHistoryOpen' = TRUE
    /\ Did("openHistory", "none")
    /\ UNCHANGED <<environment, now, screen, history, collection, localStorage, comparator,
                   isCollectionOpen, isFieldDiaryOpen, editingDiaryEntry, requests,
                   thumbnails, counters, appended>>

closeHistory ==
    /\ isHistoryOpen
    /\ isHistoryOpen' = FALSE
    /\ Did("closeHistory", "none")
    /\ UNCHANGED <<environment, now, screen, history, collection, localStorage, comparator,
                   isCollectionOpen, isFieldDiaryOpen, editingDiaryEntry, requests,
                   thumbnails, counters, appended>>

\* onClearHistory={() => saveHistory([])}
clearHistory ==
    /\ isHistoryOpen
    /\ history # <<>>
    /\ Commit(saveHistory(Stores, <<>>))
    /\ appended' = <<>>
    /\ Did("clearHistory", "none")
    /\ UNCHANGED <<environment, now, screen, comparator, modals, requests, thumbnails, counters>>

\* the My collection button of the main screen
openCollection ==
    /\ ShowsMainInput
    /\ collection # <<>>
    /\ isCollectionOpen' = TRUE
    /\ Did("openCollection", "none")
    /\ UNCHANGED <<environment, now, screen, history, collection, localStorage, comparator,
                   isHistoryOpen, isFieldDiaryOpen, editingDiaryEntry, requests,
                   thumbnails, counters, appended>>

handleCloseCollection ==
    /\ isCollectionOpen
    /\ isCollectionOpen' = FALSE
    /\ Did("handleCloseCollection", "none")
    /\ UNCHANGED <<environment, now, screen, history, collection, localStorage, comparator,
                   isHistoryOpen, isFieldDiaryOpen, editingDiaryEntry, requests,
                   thumbnails, counters, appended>>

\* an item of the open History or Collection list is chosen
handleViewHistoryItem ==
    /\ \/ isHistoryOpen /\ \E i \in DOMAIN history : currentResult' = history[i]
       \/ isCollectionOpen /\ \E i \in DOMAIN collection : currentResult' = collection[i]
    /\ isHistoryOpen' = FALSE
    /\ isCollectionOpen' = FALSE
    /\ view' = "main"
    /\ Did("handleViewHistoryItem", "none")
    /\ UNCHANGED <<environment, now, image, isLoading, error, history, collection, localStorage,
                   comparator, isFieldDiaryOpen, editingDiaryEntry, requests, thumbnails,
                   counters, appended>>

\* the trash button of an item of the open Collection list
removeFromCollection ==
    /\ isCollectionOpen
    /\ \E i \in DOMAIN collection :
           Commit(handleRemoveFromCollection(Stores, collection[i].id))
    /\ Did("handleRemoveFromCollection", "none")
    /\ UNCHANGED <<environment, now, screen, comparator, modals, requests, thumbnails, counters,
                   appended>>

\* Compare, on the result card or on an item of the open Collection list
handleStartCompare ==
    /\ \/ ShowsResult /\ comparisonMushrooms' = [mushroomA |-> currentResult, mushroomB |-> JNull]
       \/ isCollectionOpen /\ \E i \in DOMAIN collection :
              comparisonMushrooms' = [mushroomA |-> collection[i], mushroomB |-> JNull]
    /\ comparisonResult' = JNull
    /\ currentResult' = JNull
    /\ error' = JNull
    /\ view' = "comparator"
    /\ isCollectionOpen' = FALSE
    /\ Did("handleStartCompare", "none")
    /\ UNCHANGED <<environment, now, image, isLoading, history, collection, localStorage,
                   isHistoryOpen, isFieldDiaryOpen, editingDiaryEntry, requests, thumbnails,
                   counters, appended>>

\* tells apart the calls of handleToggleCollection that await their thumbnails
NextCall ==
    CHOOSE k \in 1..(Cardinality(thumbnails) + 1) :
        /\ \A h \in thumbnails : h.call # k
        /\ \A j \in 1..(k - 1) : \E h \in thumbnails : h.call = j

\* handleToggleCollection: the remove branch, and the add branch up to its await
handleToggleCollection ==
    /\ ShowsResult
    /\ IF HasId(collection, currentResult.id)
       THEN /\ Commit(saveCollection(Stores, WithoutId(collection, currentResult.id)))
            /\ Did("handleToggleCollection", "removed")
            /\ UNCHANGED thumbnails
       ELSE /\ thumbnails' = thumbnails \cup
                    {[currentResult |-> currentResult, collection |-> collection,
                      call |-> NextCall]}
            /\ Did("handleToggleCollection", "started")
            /\ UNCHANGED <<history, collection, localStorage>>
    /\ UNCHANGED <<environment, now, screen, comparator, modals, requests, counters, appended>>

\* the add branch of handleToggleCollection once its thumbnails are made
toggleCollectionSettled ==
    \E h \in thumbnails :
        LET a == toggleAdd(Stores, h.currentResult, h.collection, canvas) IN
        /\ Commit(a.stores)
        /\ editingDiaryEntry' = a.editingDiaryEntry
        /\ isFieldDiaryOpen' = TRUE
        /\ thumbnails' = thumbnails \ {h}
        /\ Did("handleToggleCollection", "added")
        /\ UNCHANGED <<environment, now, screen, comparator, isHistoryOpen, isCollectionOpen,
                       requests, counters, appended>>

\* Edit diary, on the result card of a result that is in the collection
handleEditDiary ==
    /\ ShowsResult
    /\ HasId(collection, currentResult.id)
    /\ editingDiaryEntry' = FindId(collection, currentResult.id)
    /\ isFieldDiaryOpen' = TRUE
    /\ Did("handleEditDiary", "none")
    /\ UNCHANGED <<environment, now, screen, history, collection, localStorage, comparator,
                   isHistoryOpen, isCollectionOpen, requests, thumbnails, counters,
                   appended>>

\* Save in the field diary: FieldDiaryModal.handleSave calls onSave, then onClose
saveDiary ==
    /\ isFieldDiaryOpen
    /\ editingDiaryEntry # JNull
    /\ \E diaryData \in DiaryForms :
         LET d == handleSaveDiary(Stores, Shown, editingDiaryEntry, diaryData) IN
         /\ Commit(d.stores)
         /\ currentResult' = d.currentResult
    /\ isFieldDiaryOpen' = FALSE
    /\ Did("handleSaveDiary", "none")
    /\ UNCHANGED <<environment, now, view, image, isLoading, error, comparator, isHistoryOpen,
                   isCollectionOpen, editingDiaryEntry, requests, thumbnails, counters,
                   appended>>

\* the field diary is closed without saving
closeFieldDiary ==
    /\ isFieldDiaryOpen
    /\ editingDiaryEntry # JNull
    /\ isFieldDiaryOpen' = FALSE
    /\ Did("closeFieldDiary", "none")
    /\ UNCHANGED <<environment, now, screen, history, collection, localStorage, comparator,
                   isHistoryOpen, isCollectionOpen, editingDiaryEntry, requests,
                   thumbnails, counters, appended>>

(***************************************************************************)
(* The stores in one session: identifications, History, Collection and     *)
(* the field diary.                                                        *)
(***************************************************************************)
\* identifications started on the device
MaxRequests == 2
\* add-to-collection handlers awaiting thumbnails at one time
MaxThumbnails == 1

Next ==
    \/ Mount
    \/ handleReset
    \/ handleFileChange
    \/ changePhoto
    \/ (started < MaxRequests /\ processImage)
    \/ (started < MaxRequests /\ handleTextSearch)
    \/ (\E script \in Scripts : identificationSettled(1, script))
    \/ openHistory
    \/ closeHistory
    \/ clearHistory
    \/ openCollection
    \/ handleCloseCollection
    \/ handleViewHistoryItem
    \/ removeFromCollection
    \/ (Cardinality(thumbnails) < MaxThumbnails /\ handleToggleCollection)
    \/ toggleCollectionSettled
    \/ handleEditDiary
    \/ saveDiary
    \/ closeFieldDiary

Spec == Init /\ [][Next]_vars

(***************************************************************************)
(* The requests in one session: identifications and the comparator, with   *)
(* Reset while a request is in flight.                                     *)
(***************************************************************************)
\* requests started in the comparator
MaxComparisons == 2

RequestsNext ==
    \/ Mount
    \/ handleReset
    \/ handleFileChange
    \/ (started < MaxRequests /\ processImage)
    \/ (started < MaxRequests /\ handleTextSearch)
    \/ (\E script \in Scripts : identificationSettled(1, script))
    \/ openHistory
    \/ openCollection
    \/ handleViewHistoryItem
    \/ handleStartCompare
    \/ (compared < MaxComparisons /\ handleComparisonSearch)
    \/ comparisonSearchSettled(1)
    \/ (compared < MaxComparisons /\ handleGenerateComparison)
    \/ comparisonSettled

SpecRequests == Init /\ [][RequestsNext]_vars

(***************************************************************************)
(* History under identifications that each succeed and complete before the *)
(* next starts.  Two identifications can read the same time from the       *)
(* clock.                                                                  *)
(***************************************************************************)
\* identifications started on the device
MaxSequence == 36
\* pairs of successive entries with the same timestamp
MaxTies == 1

Ties ==
    Cardinality({i \in 1..(Len(appended) - 1) :
                     appended[i].timestamp = appended[i + 1].timestamp})

HistoryInit ==
    /\ svc = Idle
    /\ \E storage \in Storages : FreshApp(storage, TRUE, "load")

HistoryNext ==
    \/ Mount
    \/ handleReset
    \/ (started < MaxSequence /\ handleTextSearch)
    \/ (\E elapsed \in {0, 1} :
            /\ elapsed = 0 => Ties < MaxTies /\ appended # <<>>
            /\ identificationSettled(elapsed, FullScript))

SpecHistory == HistoryInit /\ [][HistoryNext]_vars

(***************************************************************************)
(* Overlapping identifications.  A search of the comparator that is still  *)
(* in flight after handleReset clears isLoading when it completes, so a    *)
(* text search started since then no longer hides the main input.          *)
(***************************************************************************)
MaxOverlap == 3

OverlapNext ==
    \/ Mount
    \/ handleReset
    \/ openCollection
    \/ handleStartCompare
    \/ (compared < MaxComparisons /\ handleComparisonSearch)
    \/ comparisonSearchSettled(1)
    \/ (started < MaxOverlap /\ handleTextSearch)
    \/ identificationSettled(1, FullScript)

SpecOverlap == HistoryInit /\ [][OverlapNext]_vars

(***************************************************************************)
(* The Collection under toggles that overlap: the button of the result     *)
(* card can be pressed again while an earlier press awaits its thumbnails. *)
(***************************************************************************)
\* add-to-collection handlers awaiting thumbnails at one time
MaxPending == 2

CollectionNext ==
    \/ Mount
    \/ handleReset
    \/ (started < MaxRequests /\ handleTextSearch)
    \/ identificationSettled(1, FullScript)
    \/ openHistory
    \/ openCollection
    \/ handleViewHistoryItem
    \/ removeFromCollection
    \/ (Cardinality(thumbnails) < MaxPending /\ handleToggleCollection)
    \/ toggleCollectionSettled
    \/ handleEditDiary
    \/ saveDiary
    \/ closeFieldDiary

SpecCollection == HistoryInit /\ [][CollectionNext]_vars

(***************************************************************************)
(* The decoder, the sanitizers and the image normalizer on their own: each *)
(* is applied once to an input drawn from what JSON.parse, the provider    *)
(* and the device can hand to it.                                          *)
(***************************************************************************)
\* Decoded JSON values of every type
JsonSamples ==
    {JNull, Str(<<>>), Str(<<"Lethal">>), Str(<<"DEADLY">>), Num(<<"0">>), Num(<<"5">>),
     Bool(FALSE), Bool(TRUE), Arr(<<>>), Arr(<<Str(<<"Lethal">>)>>), [t |-> "object"]}

\* Raw toxicity levels; an absent property reads as undefined
RawLevels ==
    {Undefined, Str(<<"lethal">>)} \cup JsonSamples \cup ToxicityLevels

\* the longest raw hongosSimilares list
MaxSimilar == 3

\* sanitizeMushroomInfo on a decoded value: any value that is no object, a
\* record that varies in its names and its toxicity, or a record that varies
\* in its lists
applySanitizeMushroomInfo ==
    LET toxicities ==
            {Undefined} \cup JsonSamples
            \cup { [t |-> "object", nivelToxicidad |-> v] : v \in RawLevels }
        records ==
            { [t |-> "object", error |-> e, nombreComun |-> c, nombreCientifico |-> n,
               distribucionGeografica |-> d, toxicidad |-> x] :
                e \in ErrorValues,
                c \in NombreComunValues
                      \cup {Str(NameNotAvailable), Num(<<"0">>), Num(<<"5">>), Bool(FALSE),
                            [t |-> "object"]},
                n \in NombreCientificoValues,
                d \in DistribucionValues,
                x \in toxicities }
        similar ==
            {JNull, Str(<<"Galerina">>)}
            \cup { [t |-> "object", nombreComun |-> c, diferenciaClave |-> d, esToxico |-> e] :
                     c \in {Undefined, Str(<<"Galerina">>), Num(<<"5">>)},
                     d \in {Undefined, Str(<<"brown", "spores">>)},
                     e \in {Undefined, Bool(FALSE)} }
        similarLists ==
            {Undefined, Str(<<"none">>)}
            \cup { Arr(items) : items \in UNION { [1..n -> similar] : n \in 0..MaxSimilar } }
        recipes ==
            {Undefined,
             Arr(<<JNull,
                   [t |-> "object"],
                   [t |-> "object", nombre |-> Num(<<"5">>),
                    ingredientes |-> Arr(<<Str(<<"butter">>), Num(<<"5">>)>>)]>>)}
        synonyms == {Undefined, Arr(<<Str(<<"Agaricus">>), Num(<<"5">>), Str(<<"Fungus">>)>>)}
        listRecords ==
            { [t |-> "object", nombreComun |-> c,
               nombreCientifico |-> Str(<<"Amanita", "phalloides">>),
               toxicidad |-> [t |-> "object", nivelToxicidad |-> Str(<<"DEADLY">>)],
               sinonimos |-> y, recetas |-> r, hongosSimilares |-> h] :
                c \in {Str(<<>>), Str(<<"Death", "cap">>)},
                y \in synonyms, r \in recipes, h \in similarLists }
    IN  /\ applied.fn = "none"
        /\ \E data \in {Undefined} \cup JsonSamples \cup records \cup listRecords :
               applied' = Applied("sanitizeMushroomInfo", data,
                                  Return(sanitizeMushroomInfo(data)))
        /\ UNCHANGED <<svc, appVars>>

applySanitizeComparisonInfo ==
    LET comparisons ==
            { [t |-> "object", error |-> e, resumenComparativo |-> r, toxicidad |-> x,
               usosCulinarios |-> u] :
                e \in ErrorValues,
                r \in {Undefined, Str(<<"Both", "grow", "under", "oaks">>), Num(<<"5">>)},
                x \in {Undefined, JNull, Str(<<"Lethal">>)}
                      \cup { [t |-> "object", nivelHongoA |-> a, nivelHongoB |-> b] :
                               a \in RawLevels, b \in RawLevels },
                u \in {Undefined,
                       [t |-> "object", similitudes |-> Arr(<<Str(<<"fried">>), JNull>>)]} }
    IN  /\ applied.fn = "none"
        /\ \E data \in {Undefined} \cup JsonSamples \cup comparisons :
               applied' = Applied("sanitizeComparisonInfo", data,
                                  Return(sanitizeComparisonInfo(data)))
        /\ UNCHANGED <<svc, appVars>>

applyGetJsonFromResponse ==
    /\ applied.fn = "none"
    /\ \E text \in Texts :
           applied' = Applied("getJsonFromResponse", text, getJsonFromResponse(text))
    /\ UNCHANGED <<svc, appVars>>

\* imageToDataUrl on an empty source, an SVG data URL, a raster data URL, a
\* blob URL and a remote URL
applyImageToDataUrl ==
    /\ applied.fn = "none"
    /\ \E src \in {Str(<<>>), Str(createPlaceholderImage), Str(GeneratedImage),
                   Str(PhotoBlobUrl), Str(<<"https:", "//example.org/", "map.png">>)},
          load \in CanvasOutcomes :
           applied' = Applied("imageToDataUrl", [src |-> src, load |-> load],
                              imageToDataUrl(src, load))
    /\ UNCHANGED <<svc, appVars>>

\* sides of the images and of the bounds tried: every small one, and the
\* sizes of a photo, of the history thumbnail and of a diary photo
MaxSide == 8

Sides == 1..MaxSide \cup {400, 800, 2000, 4000}

\* createThumbnail(dataUrl, maxSize) for an image of width x height; drawn
\* is what drawImage is asked for, canvas the size of the canvas encoded
applyCreateThumbnail ==
    /\ applied.fn = "none"
    /\ \E src \in {Str(<<>>), Str(createPlaceholderImage), Str(PhotoDataUrl),
                   Str(PhotoBlobUrl), Str(<<"https:", "//example.org/", "map.png">>)},
          width \in Sides, height \in Sides, maxSize \in Sides, load \in ImageLoads :
           LET url == createThumbnail(src, load)
               size == ThumbnailSize(width, height, maxSize)
           IN  applied' = Applied("createThumbnail",
                                  [src |-> src, width |-> width, height |-> height,
                                   maxSize |-> maxSize, load |-> load],
                                  Return(IF url = Str(CanvasJpeg)
                                         THEN [url |-> url, drawn |-> size,
                                               canvas |-> [width |-> CanvasSide(size.width),
                                                           height |-> CanvasSide(size.height)]]
                                         ELSE [url |-> url]))
    /\ UNCHANGED <<svc, appVars>>

\* the callback of hongosSimilares.map on one raw entry, in the sanitizer of
\* App.tsx and in the sanitizer of services/geminiService.ts
applySimilarMushroom ==
    LET entries ==
            {JNull, Str(<<"Galerina">>), Arr(<<>>)}
            \cup { [t |-> "object", nombreComun |-> c, diferenciaClave |-> d, esToxico |-> e] :
                     c \in {Undefined} \cup JsonSamples,
                     d \in {Undefined, JNull, Str(<<>>), Str(<<"brown", "spores">>),
                            Num(<<"5">>), Arr(<<>>)},
                     e \in {Undefined, Bool(TRUE), Bool(FALSE), Str(<<"yes">>), Num(<<"0">>)} }
    IN  /\ applied.fn = "none"
        /\ \E h \in entries :
               \/ applied' = Applied("SimilarMushroom", h, Return(SimilarMushroom(h)))
               \/ applied' = Applied("SimilarMushroomService", h,
                                     Return(SimilarMushroomService(h)))
        /\ UNCHANGED <<svc, appVars>>

FunctionsNext ==
    \/ applySanitizeMushroomInfo
    \/ applySanitizeComparisonInfo
    \/ applyGetJsonFromResponse
    \/ applyImageToDataUrl
    \/ applyCreateThumbnail
    \/ applySimilarMushroom

SpecFunctions == SvcInit /\ [][FunctionsNext]_vars

(***************************************************************************)
(* Claims about the model invoker                                          *)
(***************************************************************************)
\* The quota condition as the specification words it: an Error whose message
\* holds '429' or, in any letter case, the resource-exhaustion phrase
QuotaCondition(e) ==
    /\ e.isError
    /\ \/ Includes(e.message, <<"429">>)
       \/ Includes(ToLowerCase(e.message), <<"resource", "has", "been", "exhausted">>)

\* The calls of an invocation that went to a text model
TextCalls(s) == SelectSeq(s.calls, LAMBDA c : c.model # "gemini-3-pro-image-preview")

\* C1: once the primary attempt of an invocation has failed with a quota
\* condition, the invocation has issued exactly two text-model calls, the
\* primary one and then one to gemini-2.5-flash with the same parts and the
\* same config, and this stays so until the invocation ends, whatever the
\* secondary call's outcome.
C1_ExactlyOneSecondaryCall ==
    QuotaCondition(svc.primaryError) =>
        LET tc == TextCalls(svc) IN
        /\ Len(tc) = 2
        /\ tc[1].model = "gemini-3-pro-preview"
        /\ tc[2].model = "gemini-2.5-flash"
        /\ tc[2].parts = tc[1].parts
        /\ tc[2].config = tc[1].config

\* C1 witness: a fallback whose secondary call failed too, the invocation over
C1_Witness ==
    /\ QuotaCondition(svc.primaryError)
    /\ svc.fallbackError # NoError
    /\ svc.pc = "done"
    /\ svc.op = "compareMushrooms"

\* C2: when the primary attempt fails with anything but a quota condition,
\* the invocation is over at once with a thrown error, and the primary call
\* is the only call it has issued.
C2_NoSecondaryCallOtherwise ==
    (svc.primaryError # NoError /\ ~QuotaCondition(svc.primaryError)) =>
        /\ svc.pc = "done"
        /\ svc.result.status = "thrown"
        /\ Len(svc.calls) = 1
        /\ svc.calls[1].model = "gemini-3-pro-preview"

\* C2 witness: the primary response could not be decoded
C2_Witness ==
    /\ svc.primaryError = Err(<<"INVALID_RESPONSE">>)
    /\ svc.pc = "done"
    /\ svc.op = "identifyMushroomFromText"

\* C3 as claimed: the primary and the secondary attempt both fail with a
\* quota condition, and the error thrown to the caller is API_QUOTA.
C3_QuotaTwiceIsApiQuota ==
    (/\ svc.pc = "done"
     /\ QuotaCondition(svc.primaryError)
     /\ QuotaCondition(svc.fallbackError)) =>
        svc.result.error = Err(<<"API_QUOTA">>)

\* The error kinds processError has a case for
PipelineKinds ==
    {"SERVICE_CONFIG_ERROR_API_KEY_MISSING", "SERVICE_CONFIG_ERROR", "API_QUOTA",
     "NETWORK_ERROR", "INVALID_RESPONSE", "IDENTIFY_FAILED"}

IsPipelineKind(e) == e.isError /\ \E k \in PipelineKinds : e.message = <<k>>

\* The error that made the invocation fail: of the fallback attempt, else of
\* the primary attempt, else of the credential lookup
FailingError(s) ==
    IF s.fallbackError # NoError THEN s.fallbackError
    ELSE IF s.primaryError # NoError THEN s.primaryError
    ELSE Err(<<"SERVICE_CONFIG_ERROR_API_KEY_MISSING">>)

\* An Error that holds none of the substrings handleApiError looks for
Unclassified(e) ==
    /\ e.isError
    /\ ~Includes(e.message, <<"SERVICE_CONFIG_ERROR_API_KEY_MISSING">>)
    /\ ~Includes(ToLowerCase(e.message), <<"api", "key", "not", "valid">>)
    /\ ~Includes(e.message, <<"429">>)
    /\ ~Includes(e.message, <<"resource", "has", "been", "exhausted">>)
    /\ ~Includes(e.message, <<"failed", "to", "fetch">>)

C5_ImageFailureNeverThrown ==
    (/\ svc.op \in {"identifyMushroomFromImage", "identifyMushroomFromText"}
     /\ svc.mushroomInfo # JNull
     /\ svc.pc = "done") =>
        /\ svc.result.status = "returned"
        /\ svc.result.mushroomInfo = svc.mushroomInfo
        /\ svc.map.data = JNull =>
               (svc.result.mapaDistribucionSrc = JNull /\ svc.result.mapGenerationFailed)
        /\ (svc.op = "identifyMushroomFromText" /\ svc.image.data = JNull) =>
               (svc.result.imageSrc = JNull /\ svc.result.mainImageGenerationFailed)

\* C5 witness: the image call hit the quota and the map call threw
C5_Witness ==
    /\ svc.op = "identifyMushroomFromText"
    /\ svc.pc = "done"
    /\ svc.result.status = "returned"
    /\ Len(svc.calls) >= 3
    /\ svc.calls[Len(svc.calls) - 1] = ImageCall
    /\ svc.calls[Len(svc.calls)] = ImageCall
    /\ svc.settled[Len(svc.settled)].kind = "throw"
    /\ svc.image.isQuotaError


(***************************************************************************)
(* Claims about the History and Collection stores                          *)
(***************************************************************************)
Reverse(list) == [i \in DOMAIN list |-> list[Len(list) + 1 - i]]

IsDescending(list) ==
    \A i \in 1..(Len(list) - 1) : list[i].timestamp.n >= list[i + 1].timestamp.n

\* C6: under identifications that each complete before the next starts, with
\* timestamps that never decrease, History holds exactly the min(30, total)
\* most recent of the entries appended so far (those loaded from the device
\* included), newest first, and never more than 30.
C6_HistoryHoldsMostRecent ==
    /\ Len(history) <= HistoryLimit
    /\ IsDescending(history)
    /\ history = SubSeq(Reverse(appended), 1,
                        IF Len(appended) < HistoryLimit THEN Len(appended) ELSE HistoryLimit)

\* C6 (the case it names): 35 appends to an empty History, two of them with
\* the same timestamp, have left 30 entries and evicted the 5 oldest
C6_Witness ==
    /\ Len(appended) = 35
    /\ appended[1].timestamp.n >= 1
    /\ Ties = 1
    /\ Len(history) = 30
    /\ history[30] = appended[6]
    /\ history[1] = appended[35]

DiaryFields == {"personalNotes", "findingDate", "location", "userPhotos"}

DiaryUnset(entry) == \A f \in DiaryFields : Prop(entry, f) = Undefined

\* the entry was identified in this session: the earlier session's entries
\* carry the timestamp 0
ThisSession(entry) == entry.timestamp.n >= 1

\* C7: an add-to-collection that has just finished for a result identified
\* in this session has stored an entry whose field-diary fields are all
\* unset, whatever was added, edited and removed before it.
C7_ReAddedEntryHasNoDiary ==
    (last = [name |-> "handleToggleCollection", outcome |-> "added"]
     /\ ThisSession(Head(collection)))
        => DiaryUnset(Head(collection))

RequestHandlers ==
    {"processImage", "handleTextSearch", "handleComparisonSearch", "handleGenerateComparison"}

IsSanitized(mushroomInfo) ==
    mushroomInfo # JNull /\ sanitizeMushroomInfo(mushroomInfo) = mushroomInfo

Persisted(stored, list) ==
    IF stored = JNull THEN list = <<>> ELSE stored = JsonStringify(list)

HistoryHandlers == {"processImage", "handleTextSearch", "clearHistory"}

CollectionHandlers ==
    {"handleToggleCollection", "handleRemoveFromCollection", "handleSaveDiary"}

\* C10: appending to History and clearHistory leave Collection unchanged in
\* memory and on the device; add-to-collection, remove-from-collection and a
\* diary update leave History unchanged in memory and on the device.
C10_StoresAreIndependent ==
    [][/\ last'.name \in HistoryHandlers
            => /\ collection' = collection
               /\ localStorage'.mushroomCollection = localStorage.mushroomCollection
       /\ last'.name \in CollectionHandlers
            => /\ history' = history
               /\ localStorage'.mushroomHistory = localStorage.mushroomHistory]_vars

\* C10: History has just been cleared while Collection holds an entry
C10_Witness ==
    /\ last.name = "clearHistory"
    /\ history = <<>>
    /\ localStorage.mushroomHistory = JsonStringify(<<>>)
    /\ collection # <<>>
    /\ localStorage.mushroomCollection = JsonStringify(collection)


\* entry after is entry before with the diary fields of the form d and every
\* other property as it was
MergedDiary(before, after, d) ==
    /\ DOMAIN after = DOMAIN before \cup DiaryFields
    /\ \A f \in DiaryFields : after[f] = d[f]
    /\ \A k \in DOMAIN before \ DiaryFields : after[k] = before[k]

\* C11: a step of handleSaveDiary gives the Collection entries whose id is
\* the edited entry's id the diary fields of the form and changes nothing
\* else of them, leaves every other Collection entry and the whole History
\* (in memory and on the device) as they were; with no entry of that id the
\* Collection is as it was.
C11_DiaryUpdateTouchesOnlyEditedEntry ==
    [][last'.name = "handleSaveDiary" =>
         /\ history' = history
         /\ localStorage'.mushroomHistory = localStorage.mushroomHistory
         /\ Len(collection') = Len(collection)
         /\ \E d \in DiaryForms :
              \A i \in DOMAIN collection :
                  IF collection[i].id = editingDiaryEntry.id
                  THEN MergedDiary(collection[i], collection'[i], d)
                  ELSE collection'[i] = collection[i]]_vars

\* C11: the diary of one of two Collection entries has just been saved; the
\* other entry keeps the diary of the earlier session, and History holds
\* both records without diary fields
C11_Witness ==
    /\ last.name = "handleSaveDiary"
    /\ Len(collection) = 2
    /\ collection[1].id = editingDiaryEntry.id
    /\ collection[1].findingDate = Str(<<"2026-11-06">>)
    /\ collection[2].findingDate = Str(<<"2026-11-05">>)
    /\ Len(history) = 2
    /\ \A i \in DOMAIN history : DiaryUnset(history[i])


(***************************************************************************)
(* Claims about the decoder, the sanitizers and the image normalizer       *)
(***************************************************************************)
\* the raw toxicity level of a raw record, and a raw level of a raw comparison
RawLevel(data) == Get(Get(data, "toxicidad"), "nivelToxicidad")
RawLevelOf(data, hongo) == Get(Get(data, "toxicidad"), hongo)

\* out is one of the five levels, and is Caution when raw is none of them
LevelSanitized(raw, out) ==
    /\ out \in ToxicityLevels
    /\ raw \notin ToxicityLevels => out = Str(<<"Caution">>)

\* C12: every record that sanitizeMushroomInfo or sanitizeComparisonInfo
\* returns carries toxicity levels among Edible, Inedible, Caution,
\* Poisonous, Lethal, and Caution wherever the raw value is absent, not a
\* string, or a string that is none of the five.
C12_ToxicityLevelIsEnumerated ==
    /\ (applied.fn = "sanitizeMushroomInfo" /\ applied.output.value # JNull) =>
           LevelSanitized(RawLevel(applied.input),
                          applied.output.value.toxicidad.nivelToxicidad)
    /\ (applied.fn = "sanitizeComparisonInfo" /\ applied.output.value # JNull) =>
           /\ LevelSanitized(RawLevelOf(applied.input, "nivelHongoA"),
                             applied.output.value.toxicidad.nivelHongoA)
           /\ LevelSanitized(RawLevelOf(applied.input, "nivelHongoB"),
                             applied.output.value.toxicidad.nivelHongoB)

\* C12: a comparison whose raw levels are the number 5 and the string
\* 'lethal' has been sanitized to Caution and Caution
C12_Witness ==
    /\ applied.fn = "sanitizeComparisonInfo"
    /\ RawLevelOf(applied.input, "nivelHongoA") = Num(<<"5">>)
    /\ RawLevelOf(applied.input, "nivelHongoB") = Str(<<"lethal">>)
    /\ applied.output.value # JNull
    /\ applied.output.value.toxicidad.nivelHongoA = Str(<<"Caution">>)
    /\ applied.output.value.toxicidad.nivelHongoB = Str(<<"Caution">>)


\* C13: a raw record without an error whose common name is the empty
\* string, whose scientific name is a non-empty string and whose toxicity
\* level is none of the five is sanitized to a record (not to null) whose
\* nombreComun is the placeholder and whose nivelToxicidad is Caution.
C13_EmptyCommonNameIsStillValid ==
    (/\ applied.fn = "sanitizeMushroomInfo"
     /\ applied.input.t = "object"
     /\ ~Truthy(Get(applied.input, "error"))
     /\ Get(applied.input, "nombreComun") = Str(<<>>)
     /\ Get(applied.input, "nombreCientifico") = Str(<<"Amanita", "phalloides">>)
     /\ RawLevel(applied.input) \notin ToxicityLevels) =>
        /\ applied.output.value # JNull
        /\ applied.output.value.nombreComun = Str(NameNotAvailable)
        /\ applied.output.value.toxicidad.nivelToxicidad = Str(<<"Caution">>)


\* a raw hongosSimilares entry has no common name, has no key difference
NoName(h) == ~Truthy(Get(h, "nombreComun"))
NoKeyDifference(h) == ~Truthy(Get(h, "diferenciaClave"))

\* the sanitized entry out stands for the raw entry h
StandsFor(out, h) ==
    /\ out.nombreComun = Str(formatTextualData(Get(h, "nombreComun"), <<>>))
    /\ out.diferenciaClave = Str(formatTextualData(Get(h, "diferenciaClave"), <<>>))
    /\ out.esToxico = (IF Get(h, "esToxico").t = "boolean" THEN Get(h, "esToxico")
                       ELSE Bool(TRUE))

\* the sanitized list is the raw list without its invalid entries, in the
\* raw order
KeepsValidInOrder(raw, sanitized, Invalid(_)) ==
    LET valid == SelectSeq(raw, LAMBDA h : ~Invalid(h)) IN
    /\ Len(sanitized) = Len(valid)
    /\ \A i \in DOMAIN valid : StandsFor(sanitized[i], valid[i])

\* the raw record with a raw hongosSimilares list has been sanitized
SanitizedList ==
    /\ applied.fn = "sanitizeMushroomInfo"
    /\ applied.input.t = "object"
    /\ Get(applied.input, "hongosSimilares").t = "array"

\* the record is rejected exactly when it is rejected without its list
ListNeverRejects ==
    (applied.output.value = JNull)
        = (sanitizeMushroomInfo([applied.input EXCEPT !.hongosSimilares = Undefined]) = JNull)

\* C14 as stated: the entries dropped from a raw hongosSimilares list are
\* those that lack both a common name and a key difference; every other
\* entry is kept, in the raw order, and the list never rejects the record.
C14_DropsEntriesLackingBoth ==
    SanitizedList =>
        /\ ListNeverRejects
        /\ applied.output.value # JNull =>
               KeepsValidInOrder(applied.input.hongosSimilares.items,
                                 applied.output.value.hongosSimilares.items,
                                 LAMBDA h : NoName(h) /\ NoKeyDifference(h))

\* C14 amended: the entries dropped are those that lack a common name or a
\* key difference (or are no objects); the entries that have both are kept
\* in the raw order, n raw entries with k such entries yield n-k sanitized
\* entries, and the list never rejects the record.
C14_DropsEntriesLackingEither ==
    SanitizedList =>
        /\ ListNeverRejects
        /\ applied.output.value # JNull =>
               KeepsValidInOrder(applied.input.hongosSimilares.items,
                                 applied.output.value.hongosSimilares.items,
                                 LAMBDA h : NoName(h) \/ NoKeyDifference(h))

\* C14: of three raw entries the second has a name and no key difference;
\* the sanitized record holds the first and the third
C14_Witness ==
    /\ SanitizedList
    /\ applied.output.value # JNull
    /\ Len(applied.input.hongosSimilares.items) = 3
    /\ ~NoName(applied.input.hongosSimilares.items[2])
    /\ NoKeyDifference(applied.input.hongosSimilares.items[2])
    /\ Get(applied.input.hongosSimilares.items[1], "nombreComun") = Num(<<"5">>)
    /\ Get(applied.input.hongosSimilares.items[3], "nombreComun") = Str(<<"Galerina">>)
    /\ Len(applied.output.value.hongosSimilares.items) = 2
    /\ applied.output.value.hongosSimilares.items[1].nombreComun = Str(<<"5">>)
    /\ applied.output.value.hongosSimilares.items[2].nombreComun = Str(<<"Galerina">>)


IsString(x) == x.t = "string"
IsStringList(x) == x.t = "array" /\ \A i \in DOMAIN x.items : IsString(x.items[i])

\* obj is an object with exactly the properties keys
HasExactly(obj, keys) == obj.t = "object" /\ DOMAIN obj = keys \cup {"t"}

\* every field of a MushroomInfo is present and has its declared type
WellTyped(info) ==
    /\ HasExactly(info, {"nombreComun", "nombreCientifico", "sinonimos", "descripcionGeneral",
                         "habitat", "temporada", "distribucionGeografica", "usosCulinarios",
                         "toxicidad", "recetas", "hongosSimilares"})
    /\ \A f \in {"nombreComun", "nombreCientifico", "descripcionGeneral", "habitat",
                 "temporada", "distribucionGeografica"} : IsString(info[f]) /\ info[f].v # <<>>
    /\ IsStringList(info.sinonimos)
    /\ IsStringList(info.usosCulinarios)
    /\ HasExactly(info.toxicidad, {"descripcion", "nivelToxicidad", "compuestosToxicos",
                                   "sintomas", "primerosAuxilios"})
    /\ \A f \in {"descripcion", "nivelToxicidad", "sintomas", "primerosAuxilios"} :
           IsString(info.toxicidad[f])
    /\ IsStringList(info.toxicidad.compuestosToxicos)
    /\ info.recetas.t = "array"
    /\ \A i \in DOMAIN info.recetas.items :
           LET r == info.recetas.items[i] IN
           /\ HasExactly(r, {"nombre", "ingredientes", "instrucciones"})
           /\ IsString(r.nombre) /\ IsString(r.instrucciones) /\ IsStringList(r.ingredientes)
    /\ info.hongosSimilares.t = "array"
    /\ \A i \in DOMAIN info.hongosSimilares.items :
           LET h == info.hongosSimilares.items[i] IN
           /\ HasExactly(h, {"nombreComun", "nombreCientifico", "diferenciaClave", "esToxico"})
           /\ IsString(h.nombreComun) /\ IsString(h.nombreCientifico)
           /\ IsString(h.diferenciaClave) /\ h.esToxico.t = "boolean"

C16_ObjectOrInvalidResponse ==
    applied.fn = "getJsonFromResponse" =>
        \/ applied.output.ok /\ applied.output.value.t = "object"
        \/ ~applied.output.ok /\ applied.output.error = Err(<<"INVALID_RESPONSE">>)


(***************************************************************************)
(* Claims about the distribution map and the API credential                *)
(***************************************************************************)
\* The sanitized record the invocation holds has no distribution: the
\* field is the placeholder of sanitizeMushroomInfo, or is empty
DistributionUnavailable(s) ==
    /\ s.mushroomInfo # JNull
    /\ \/ s.mushroomInfo.distribucionGeografica = Str(DistributionNotAvailable)
       \/ ~Truthy(s.mushroomInfo.distribucionGeografica)

ImageCalls(s) == Len(SelectSeq(s.calls, LAMBDA call : call = ImageCall))

\* C17: when the sanitized record's distribucionGeografica is the "not
\* available" placeholder, no call for the map is issued (the only image
\* call is the one for the main image of identifyMushroomFromText) and the
\* operation returns no map.
C17_NoMapCallWithoutDistribution ==
    DistributionUnavailable(svc) =>
        /\ svc.pc # "map"
        /\ ImageCalls(svc) = (IF svc.op = "identifyMushroomFromText" THEN 1 ELSE 0)
        /\ svc.pc = "done" =>
               /\ svc.map = ImageSignal(JNull, FALSE)
               /\ svc.result.status = "returned"
               /\ svc.result.mapaDistribucionSrc = JNull

\* C17: identifyMushroomFromText returned a record without distribution,
\* with the generated main image and without a map
C17_Witness ==
    /\ DistributionUnavailable(svc)
    /\ svc.op = "identifyMushroomFromText"
    /\ svc.pc = "done"
    /\ svc.result.imageSrc = Str(GeneratedImage)
    /\ svc.result.mapaDistribucionSrc = JNull
    /\ svc.calls = <<PrimaryCall(svc.op), ImageCall>>


ConfigMissing == Err(<<"SERVICE_CONFIG_ERROR_API_KEY_MISSING">>)

\* the codes processError tells apart from ConfigMissing
OtherKinds ==
    {<<"API_QUOTA">>, <<"SERVICE_CONFIG_ERROR">>, <<"NETWORK_ERROR">>, <<"INVALID_RESPONSE">>,
     <<"IDENTIFY_FAILED">>, <<"IMAGE_UPLOAD_ERROR">>, <<"UNEXPECTED_ERROR">>}

\* C18: an identification or comparison started without an API key fails
\* with SERVICE_CONFIG_ERROR_API_KEY_MISSING before any provider call; that
\* kind is shown differently from every other kind, and no invocation that
\* has a key fails with it.
C18_MissingKeyIsConfigMissing ==
    /\ (svc.op \in Ops /\ ~svc.apiKey) =>
           /\ svc.pc = "done"
           /\ svc.calls = <<>>
           /\ svc.result.status = "thrown"
           /\ svc.result.error = ConfigMissing
           /\ \A kind \in OtherKinds :
                  processError(svc.result.error) # processError(Err(kind))
    /\ (svc.op \in Ops /\ svc.apiKey /\ svc.result.status = "thrown") =>
           svc.result.error # ConfigMissing

\* C18: compareMushrooms was started without an API key and has failed
C18_Witness ==
    /\ svc.op = "compareMushrooms"
    /\ ~svc.apiKey
    /\ svc.pc = "done"
    /\ svc.result.error = ConfigMissing


(***************************************************************************)
(* Claims about the image references                                       *)
(***************************************************************************)
IsDataUrl(x) == x.t = "string" /\ StartsWith(x.v, <<"data:image">>)

\* the list stored under a key of localStorage
StoredList(stored) == IF stored = JNull THEN <<>> ELSE JsonParse(stored)

\* the image references of a stored entry: the primary image, the map when
\* there is one, and each photo of the field diary
ImageReferences(entry) ==
    {entry.imageSrc}
    \cup (IF Truthy(Prop(entry, "mapaDistribucionSrc")) THEN {entry.mapaDistribucionSrc} ELSE {})
    \cup (IF Prop(entry, "userPhotos").t = "array"
          THEN { entry.userPhotos.items[i] : i \in DOMAIN entry.userPhotos.items }
          ELSE {})

\* C19: every image reference written to the persisted History or
\* Collection (primary image, distribution map, each photo of the field
\* diary) is a data URL; no blob reference and no remote URL is persisted.
C19_PersistedImagesAreDataUrls ==
    \A stored \in {localStorage.mushroomHistory, localStorage.mushroomCollection} :
        \A i \in DOMAIN StoredList(stored) :
            \A ref \in ImageReferences(StoredList(stored)[i]) : IsDataUrl(ref)


\* C20: imageToDataUrl is total: for every source and every outcome of
\* loading and of the canvas conversion, the promise resolves (with the
\* converted data URL, the unchanged SVG data URL, the empty string or the
\* placeholder) and never rejects.
C20_ImageToDataUrlNeverRejects ==
    applied.fn = "imageToDataUrl" =>
        /\ applied.output.ok
        /\ applied.output.value \in {Str(<<>>), applied.input.src, Str(CanvasPng),
                                     Str(createPlaceholderImage)}


\* x <= n for a fraction x
AtMost(x, n) == x.num <= n * x.den

IsRaster(src) ==
    /\ Truthy(src)
    /\ StartsWith(src.v, <<"data:image">>)
    /\ ~StartsWith(src.v, <<"data:image", "/svg+xml">>)

IdentifyOps == {"identifyMushroomFromImage", "identifyMushroomFromText"}

\* the provider call failed with a quota condition
FailedOnQuota(out) ==
    /\ out.kind = "throw"
    /\ \/ Includes(out.error.message, <<"429">>)
       \/ Includes(ToLowerCase(out.error.message), MsgExhaustedLower)

\* the places of the image calls among the calls of the invocation s
ImageCallsAt(s) == { i \in DOMAIN s.calls : s.calls[i] = ImageCall }

First(places) == CHOOSE i \in places : \A j \in places : i <= j
Last(places) == CHOOSE i \in places : \A j \in places : j <= i

\* the invocation s had its last call settle with outcome out instead
SettledOtherwise(s, out) ==
    Run(Begin(s.op, s.apiKey), SubSeq(s.settled, 1, Len(s.settled) - 1) \o <<out>>)

\* what the signals of the two generators say in a returned invocation
SignalsAreExact(s) ==
    LET at == ImageCallsAt(s)
        subject == IF s.op = "identifyMushroomFromText" THEN at ELSE {}
        map == IF s.op = "identifyMushroomFromText" THEN at \ {First(at)} ELSE at
    IN  /\ subject # {} => s.image.isQuotaError = FailedOnQuota(s.settled[First(subject)])
        /\ s.map.isQuotaError = (map # {} /\ FailedOnQuota(s.settled[Last(map)]))

\* C22: isQuotaError of generateMushroomImage and generateDistributionMap is
\* true exactly when the call failed with a quota condition, and the caller
\* of identifyMushroomFromImage and identifyMushroomFromText can tell the
\* two causes apart: had the last image call settled otherwise with another
\* signal, the result returned would differ.
C22_QuotaSignalReachesCaller ==
    (svc.op \in IdentifyOps /\ svc.pc = "done" /\ svc.result.status = "returned") =>
        /\ SignalsAreExact(svc)
        /\ ImageCallsAt(svc) # {} =>
               \A out \in ImageOutcomes :
                   LET other == SettledOtherwise(svc, out) IN
                   other.result = svc.result =>
                       /\ other.image.isQuotaError = svc.image.isQuotaError
                       /\ other.map.isQuotaError = svc.map.isQuotaError


(***************************************************************************)
(* Claims about the handlers of the App                                    *)
(***************************************************************************)
Refused == [name |-> "handleFileChange", outcome |-> "refused"]

\* C23: when the file chosen is no image, the message of
\* IMAGE_UPLOAD_ERROR is shown, no image is selected, and nothing is
\* started or stored for the file: no request (provider call, geolocation)
\* and no write to History, Collection or localStorage.
C23_NonImageFileIsRefused ==
    [][(last' = Refused /\ last # Refused) =>
           /\ error' = Str(<<"error_imageUpload">>)
           /\ image = JNull /\ image' = JNull
           /\ requests' = requests /\ thumbnails' = thumbnails
           /\ started' = started
           /\ svc' = svc
           /\ history' = history /\ collection' = collection
           /\ localStorage' = localStorage
           /\ currentResult' = currentResult /\ isLoading' = isLoading]_vars

\* C23: a file that is no image was refused on a device that has a history
C23_Witness ==
    /\ last = Refused
    /\ error = Str(<<"error_imageUpload">>)
    /\ image = JNull
    /\ history # <<>>
    /\ requests = {}


Identifications == {"processImage", "handleTextSearch"}

\* C24: once the identifications of a session have completed, History holds
\* the entry of each of them, also of those whose requests overlapped (the
\* entries are fewer than 30 and History was not cleared).
C24_NoAppendIsLost ==
    (mounted /\ Len(appended) <= HistoryLimit
     /\ \A r \in requests : r.kind \notin Identifications) =>
        \A i \in DOMAIN appended : HasId(history, appended[i].id)


\* a request that was in flight completes in this step
Completes == requests' # requests /\ requests' \subseteq requests

\* C25: the completion of a request that was in flight when handleReset was
\* invoked changes none of currentResult, comparisonMushrooms,
\* comparisonResult, error and isLoading (stated for a completion that
\* follows handleReset at once, when nothing was started since).
C25_CompletionAfterResetIsIgnored ==
    [][(last.name = "handleReset" /\ Completes) =>
           UNCHANGED <<currentResult, comparisonMushrooms, comparisonResult, error,
                       isLoading>>]_vars


\* C26: isLoading is true whenever an identification or comparison request
\* is in flight, so that at most one is in flight at a time; it becomes
\* false only in a step in which a request completes, and it is false when
\* no request is in flight.
C26_LoadingWhileInFlight ==
    /\ [](/\ requests # {} => isLoading
          /\ Cardinality(requests) <= 1
          /\ requests = {} => ~isLoading)
    /\ [][(isLoading /\ ~isLoading') => Completes]_vars


\* the places of the text-model calls among the calls of the invocation s
TextCallsAt(s) == DOMAIN s.calls \ ImageCallsAt(s)

\* C27: within one identifyMushroomFromText or identifyMushroomFromImage
\* invocation there are at most two text-model calls, the primary and then
\* the secondary; after them at most one subject-image call (text search
\* only) and then at most one map call; an image call is issued only once a
\* sanitized record was obtained, and none when the identification fails.
C27_CallsAreOrderedAndBounded ==
    svc.op \in IdentifyOps =>
        LET texts == TextCallsAt(svc)
            images == ImageCallsAt(svc)
            subject == IF svc.op = "identifyMushroomFromText" THEN 1 ELSE 0
        IN  /\ texts \subseteq {1, 2}
            /\ 1 \in texts => svc.calls[1] = PrimaryCall(svc.op)
            /\ 2 \in texts => svc.calls[2] = SecondaryCall(svc.op)
            /\ \A i \in texts, j \in images : i < j
            /\ Cardinality(images) <= subject + 1
            /\ svc.pc = "image" => Cardinality(images) = 1 /\ subject = 1
            /\ svc.pc = "map" => Cardinality(images) = subject + 1
            /\ images # {} => IsSanitized(svc.mushroomInfo)
            /\ svc.result.status = "thrown" => images = {}

\* C27: a text search that needed the secondary model, then asked for the
\* subject image and for the map
C27_Witness ==
    /\ svc.op = "identifyMushroomFromText"
    /\ svc.pc = "done"
    /\ svc.calls = <<PrimaryCall(svc.op), SecondaryCall(svc.op), ImageCall, ImageCall>>
    /\ svc.result.status = "returned"


\* an add to the collection has just been made
Added == [name |-> "handleToggleCollection", outcome |-> "added"]

\* C28: the Collection holds at most one entry per identifier, whatever the
\* interleaving of handleToggleCollection (a second toggle issued while the
\* first awaits its thumbnails included), of the removal of an entry and of
\* the updates of the field diary.
C28_OneEntryPerIdentifier ==
    \A i, j \in DOMAIN collection : collection[i].id = collection[j].id => i = j

\* C28: the first of two toggles of one result has added its entry while
\* the second, issued before, still awaits its thumbnails
C28_Witness ==
    /\ last = Added
    /\ \E h \in thumbnails :
           /\ HasId(collection, h.currentResult.id)
           /\ ~HasId(h.collection, h.currentResult.id)


\* an image of a result: null, or the data URL made of the provider's bytes
ResultImages == {JNull, Str(GeneratedImage)}

\* C29: in every result of identifyMushroomFromImage and
\* identifyMushroomFromText mapGenerationFailed is true exactly when
\* mapaDistribucionSrc is null, and (text search) mainImageGenerationFailed
\* is true exactly when imageSrc is null; a map that was skipped for want of
\* a distribution is reported with mapGenerationFailed true.
C29_FlagsMirrorNullImages ==
    (svc.op \in IdentifyOps /\ svc.result.status = "returned") =>
        LET r == svc.result IN
        /\ r.mapaDistribucionSrc \in ResultImages
        /\ r.mapGenerationFailed <=> r.mapaDistribucionSrc = JNull
        /\ svc.op = "identifyMushroomFromText" =>
               /\ r.imageSrc \in ResultImages
               /\ r.mainImageGenerationFailed <=> r.imageSrc = JNull
        /\ MapSkipped(r.mushroomInfo) =>
               /\ r.mapGenerationFailed
               /\ Cardinality(ImageCallsAt(svc)) <=
                      IF svc.op = "identifyMushroomFromText" THEN 1 ELSE 0

\* C29: a text search returned with its subject image and a skipped map
C29_Witness ==
    /\ svc.op = "identifyMushroomFromText"
    /\ svc.result.status = "returned"
    /\ MapSkipped(svc.result.mushroomInfo)
    /\ svc.result.mapGenerationFailed
    /\ svc.result.mapaDistribucionSrc = JNull
    /\ svc.result.imageSrc # JNull
    /\ ~svc.result.mainImageGenerationFailed


\* a sanitized entry has a name and a key difference, and is toxic unless
\* the raw entry h says otherwise with a boolean
CompleteEntry(out, h) ==
    /\ out.nombreComun.t = "string" /\ out.nombreComun.v # <<>>
    /\ out.diferenciaClave.t = "string" /\ out.diferenciaClave.v # <<>>
    /\ out.esToxico = (IF Get(h, "esToxico").t = "boolean" THEN Get(h, "esToxico")
                       ELSE Bool(TRUE))

\* C30 for the sanitizer of App.tsx: a raw entry that lacks the common name
\* or the key difference is dropped, and a kept entry has both non-empty and
\* esToxico true unless the raw value is a boolean; so has every entry of a
\* sanitized record.
EntriesCompleteInApp ==
    /\ applied.fn = "SimilarMushroom" =>
           IF NoName(applied.input) \/ NoKeyDifference(applied.input)
           THEN applied.output.value = JNull
           ELSE /\ applied.output.value # JNull
                /\ CompleteEntry(applied.output.value, applied.input)
    /\ (SanitizedList /\ applied.output.value # JNull) =>
           \A i \in DOMAIN applied.output.value.hongosSimilares.items :
               LET out == applied.output.value.hongosSimilares.items[i] IN
               /\ out.nombreComun.v # <<>>
               /\ out.diferenciaClave.v # <<>>
               /\ out.esToxico.t = "boolean"

\* C30: every SimilarMushroom entry that sanitizeMushroomInfo keeps, in
\* App.tsx and in services/geminiService.ts, has a non-empty nombreComun and
\* a non-empty diferenciaClave; a raw entry that lacks either one is dropped,
\* and an entry kept with a non-boolean esToxico has esToxico true.
C30_KeptEntriesAreComplete ==
    /\ EntriesCompleteInApp
    /\ applied.fn = "SimilarMushroomService" =>
           IF NoName(applied.input) \/ NoKeyDifference(applied.input)
           THEN applied.output.value = JNull
           ELSE /\ applied.output.value # JNull
                /\ CompleteEntry(applied.output.value, applied.input)

====
